---- MODULE Spec2Model ----
(***************************************************************************)
(* Model of the i-PI ensemble integrators (ipi/engine/ensembles.py) and of *)
(* the simulation driver (ipi/engine/simulation.py).                       *)
(*                                                                         *)
(* Floating-point quantities are modelled by exact arithmetic, so every    *)
(* statement below is about the real-number semantics of the code.         *)
(***************************************************************************)
EXTENDS Integers, Sequences, FiniteSets, TLC

(***************************************************************************)
(* Bounds of the model.                                                    *)
(***************************************************************************)
NBeads == 2
NAtoms == 2
MaxP == 1
MaxCalls == 2
MaxLevels == 2
MaxFactor == 2
MaxSteps == 2
NSys == 2
MaxTSteps == 2
MaxEcons == 2
MaxFrames == 2
MaxNegs == 2
FreeSteps == 10

(* the three cartesian dimensions: range(3), np.zeros(3,float) *)
NDim == 3

Beads == 1..NBeads
Atoms == 1..NAtoms
Dims == 1..NDim

(***************************************************************************)
(* Arithmetic.  A real number is represented by its residue modulo the     *)
(* prime Modulus (a quotient by the inverse of its divisor), the image of  *)
(* exact rational arithmetic in the prime field: every identity between    *)
(* rational expressions whose divisors are not multiples of Modulus holds  *)
(* for the residues, and results with different residues are different.    *)
(* The divisors of the model are masses, replica counts, 2 and products of *)
(* sub-step factors, all far below Modulus.                                *)
(***************************************************************************)
Modulus == 10000 + 7

R(n) == n % Modulus
RZero == R(0)
RAdd(x, y) == (x + y) % Modulus
RNeg(x) == (Modulus - x) % Modulus
RSub(x, y) == (x + Modulus - y) % Modulus
RMul(x, y) == (x * y) % Modulus

(* x^e by repeated squaring *)
RECURSIVE RPow(_, _)
RPow(x, e) ==
    IF e = 0 THEN 1
    ELSE LET h == RPow(x, e \div 2)
             h2 == RMul(h, h)
         IN  IF e % 2 = 1 THEN RMul(h2, x) ELSE h2

(* 1/y: y^(Modulus-2), for y that is not zero; the inverses of the small
   divisors are tabulated *)
InvTable == LET t == [y \in 1..64 |-> RPow(y, Modulus - 2)] IN IF t = t THEN t ELSE t
RInv(y) == IF y \in DOMAIN InvTable THEN InvTable[y] ELSE RPow(y, Modulus - 2)
RDiv(x, y) == RMul(x, RInv(y))

(* sum of f[1] .. f[n] *)
RECURSIVE RSum(_, _)
RSum(f, n) == IF n = 0 THEN RZero ELSE RAdd(RSum(f, n - 1), f[n])

(* the value of e, computed once: TLC evaluates a function constructor when
   the function is compared *)
Evaluated(e) == CHOOSE x \in {e} : x = x

(* B applied to the value of e, that value computed once *)
LetIn(e, B(_)) == CHOOSE y \in {B(x) : x \in {Evaluated(e)}} : TRUE

BeadMap(F(_, _, _)) ==
    Evaluated([b \in Beads |-> [a \in Atoms |-> [d \in Dims |-> F(b, a, d)]]])

VARIABLES
    ens,              \* which Ensemble subclass the system runs
    thermostat,       \* the kind of the thermostat collaborator
    fixcom,           \* Ensemble.fixcom
    fixatoms,         \* Ensemble.fixatoms, the fixed-atom indices (no duplicates)
    mtsintegfactors,  \* MTSEnsemble.mtsintegfactors
    nmtslevels,       \* forces.nmtslevels(), the number of force levels
    m,                \* beads.m, the mass of each atom (the same in every replica)
    kforce,           \* stiffness of the force field of each level (0: no force)
    kbias,            \* stiffness of the bias potential (0: no bias)
    q,                \* beads.q[b][3a+d], positions
    p,                \* beads.p[b][3a+d], momenta
    eens,             \* Ensemble.eens, the constraint-energy ledger
    ethermo,          \* thermostat.ethermo, the thermostat heat
    status,           \* "constructed" until bind() has run, then "bound"
    inmts,            \* MTSEnsemble.inmts, set by bind()
    steps,            \* number of step() calls made so far
    maxsteps,         \* number of step() calls the run makes
    log,              \* the operations executed by the last step() call
    err,              \* the exception the last step() call raised, or "none"
    pre,              \* positions and momenta on entry to the last step() call
    ref,              \* what NVEEnsemble.step() gives from the state the last step() started in
    calls,            \* number of direct pconstraints() calls made so far
    pin,              \* momenta on entry to the last direct pconstraints() call, or at the start
    pmid,             \* momenta between its centre-of-mass pass and its fixed-atom pass
    eensin,           \* eens on entry to the last pconstraints() call
    qin,              \* the positions the run started from
    negs,             \* the values of steps at which all momenta were negated
    step,             \* Simulation.step
    step0,            \* the step the run was constructed with
    tsteps,           \* Simulation.tsteps
    ttime,            \* whether a wall-clock budget is set (Simulation.ttime > 0)
    rollback,         \* Simulation.rollback
    syslist,          \* per system: completed step() calls, and whether one is in flight
    runat,            \* where run() is
    it,               \* the value the loop "for self.step in range(...)" yields next
    cur,              \* the system the loop "for s in self.syslist" is at
    chk,              \* the state held by chk, as chk.store() last took it
    written,          \* the checkpoints chk.write() has written, in order
    nout,             \* number of times the outputs were written
    polls,            \* number of times the EXIT file and the wall clock were looked at
    cause,            \* what ended the run
    stopped,          \* whether forces.stop() was called for every system
    teardown,         \* what Simulation.softexit() has done, in order
    ebaro,            \* barostat.ebaro, the barostat heat
    baro,             \* what bind() passed to barostat.bind() and piped into the barostat
    econs,            \* the value the last get_econs() call returned
    necons,           \* number of get_econs() calls made so far
    lastop,           \* the last method called on the ensemble
    mode,             \* ReplayEnsemble.intraj.mode
    units,            \* ReplayEnsemble.intraj.units
    nrec,             \* number of records (one replica's snapshot each) in the trajectory file
    rpos,             \* number of records read from ReplayEnsemble.rfile so far
    rstep,            \* ReplayEnsemble.rstep
    cell,             \* cell.h
    signalled,        \* whether softexit.trigger() has been called by the ensemble
    catchup,          \* whether some step() call was given a step argument
    rarg,             \* the argument of the last ReplayEnsemble.step() call
    input,            \* the Input object a store() or fetch() is called on (self)
    sc,               \* the object last passed to store()
    ret               \* what the last store() or fetch() call gave: a value or an exception

cfgvars == <<ens, thermostat, fixcom, fixatoms, mtsintegfactors, nmtslevels, m, kforce, kbias>>
beadvars == <<q, p, eens, ethermo>>
ensvars == <<status, inmts, steps, maxsteps, log, err, pre, ref>>
consvars == <<calls, pin, pmid, eensin, qin, negs>>
simvars == <<step, step0, tsteps, ttime, rollback, syslist, runat, it, cur, chk, written, nout,
             polls, cause, stopped, teardown>>
econsvars == <<ebaro, baro, econs, necons, lastop>>
replayvars == <<mode, units, nrec, rpos, rstep, cell, signalled, catchup, rarg>>
inputvars == <<input, sc, ret>>
vars == <<cfgvars, beadvars, ensvars, consvars, simvars, econsvars, replayvars, inputvars>>

ZeroBeads0 == [b \in Beads |-> [a \in Atoms |-> [d \in Dims |-> RZero]]]

(***************************************************************************)
(* NVEEnsemble.pconstraints                                                *)
(***************************************************************************)
(* pcom[i] = p[:,i:na3:3].sum() *)
PCom(pp, d) == RSum([b \in Beads |-> RSum([a \in Atoms |-> pp[b][a][d]], NAtoms)], NBeads)

(* beads[0].M, the total mass of one replica *)
MTot(mm) == RSum([a \in Atoms |-> R(mm[a])], NAtoms)

(* np.dot(x, x) over the three dimensions *)
Dot3(x) == RSum([d \in Dims |-> RMul(x[d], x[d])], NDim)

(* the centre-of-mass pass: lines 203-220 *)
FixComPass(s, mm) ==
    LetIn([d \in Dims |-> PCom(s.p, d)], LAMBDA pcom :
      LetIn(RMul(R(NBeads), MTot(mm)), LAMBDA nbM :
        LetIn([d \in Dims |-> RMul(pcom[d], RDiv(R(1), nbM))], LAMBDA vcom :
          LET F(b, a, d) == RSub(s.p[b][a][d], RMul(R(mm[a]), vcom[d]))
          IN  [p |-> BeadMap(F),
               eens |-> RAdd(s.eens, RDiv(Dot3(pcom), RMul(R(2), nbM)))])))

(* as FixedKin, without the factor 0.5 *)
FixedKinNoHalf(pb, mm, fa) ==
    RSum([a \in Atoms |->
            IF a \in fa
            THEN RDiv(Dot3(pb[a]), R(mm[a]))
            ELSE RZero], NAtoms)

(* 0.5*np.dot(bp[fixatoms*3+d], bp[fixatoms*3+d]/m[fixatoms]) summed over the
   three dimensions for one replica *)
FixedKin(pb, mm, fa) ==
    RSum([a \in Atoms |->
            IF a \in fa
            THEN RMul(RDiv(R(1), R(2)), RDiv(Dot3(pb[a]), R(mm[a])))
            ELSE RZero], NAtoms)

(* as FixAtomsPass, zeroing the fixed atoms in the first replica only *)
FixAtomsPassFirstReplica(s, mm, fa) ==
    LET F(b, a, d) == IF a \in fa /\ b = 1 THEN RZero ELSE s.p[b][a][d]
    IN  [p |-> BeadMap(F),
         eens |-> RAdd(s.eens, FixedKin(s.p[1], mm, fa))]

(* the fixed-atom pass: lines 221-229 *)
FixAtomsPass(s, mm, fa) ==
    LET F(b, a, d) == IF a \in fa THEN RZero ELSE s.p[b][a][d]
    IN  [p |-> BeadMap(F),
         eens |-> RAdd(s.eens, RSum([b \in Beads |-> FixedKin(s.p[b], mm, fa)], NBeads))]

ComPart(s, fc, mm) == IF fc THEN FixComPass(s, mm) ELSE s
FixPart(s, mm, fa) == IF fa # {} THEN FixAtomsPass(s, mm, fa) ELSE s

pconstraints(s, fc, fa, mm) == LetIn(ComPart(s, fc, mm), LAMBDA c : FixPart(c, mm, fa))

(***************************************************************************)
(* Collaborators of the ensembles.  Their code is outside the modelled     *)
(* sources; they are modelled as deterministic functions with the          *)
(* properties the ensembles rely on.                                       *)
(***************************************************************************)
(* Ensemble.dt, the time step *)
dt == R(2)

Half == RDiv(R(1), R(2))

(* forces.forces_mts(level): a force that is a deterministic function of the
   positions, harmonic with stiffness kforce*(level+1); levels at or beyond
   nmtslevels carry no force component *)
forces_mts(qq, level, kf, L) ==
    LET F(b, a, d) == IF level < L THEN RMul(R(-(kf * (level + 1))), qq[b][a][d]) ELSE RZero
    IN  BeadMap(F)

(* forces.f, the total force: the sum of the forces of all levels *)
RECURSIVE forces_f(_, _, _)
forces_f(qq, kf, L) ==
    IF L = 0 THEN ZeroBeads0
    ELSE LetIn(forces_f(qq, kf, L - 1), LAMBDA lower :
           LetIn(forces_mts(qq, L - 1, kf, L), LAMBDA top :
             LET F(b, a, d) == RAdd(lower[b][a][d], top[b][a][d])
             IN  BeadMap(F)))

(* bias.f, the force of the bias potential, harmonic around 1 *)
bias_f(qq, kb) ==
    LET F(b, a, d) == RMul(R(kb), RSub(R(1), qq[b][a][d]))
    IN  BeadMap(F)

(* bead kinetic energy, sum of p^2/(2m) over replicas, atoms and dimensions *)
Kin(pp, mm) ==
    RSum([b \in Beads |-> RSum([a \in Atoms |->
            RDiv(RSum([d \in Dims |-> RMul(pp[b][a][d], pp[b][a][d])], NDim), R(2 * mm[a]))],
            NAtoms)], NBeads)

(* thermostat.step(): the base Thermostat does nothing ("none"); a damping
   thermostat halves every momentum and books the kinetic energy it removes
   as heat ("damp") *)
thermostat_step(s, kind, mm) ==
    IF kind = "none" THEN s
    ELSE LET F(b, a, d) == RMul(Half, s.p[b][a][d])
         IN  LetIn(BeadMap(F), LAMBDA pnew :
               [s EXCEPT !.p = pnew,
                         !.ethermo = RAdd(s.ethermo, RSub(Kin(s.p, mm), Kin(pnew, mm)))])

(* the centroid (normal mode 0) of a bead array *)
Centroid(x) ==
    Evaluated([a \in Atoms |-> [d \in Dims |->
                 RDiv(RSum([b \in Beads |-> x[b][a][d]], NBeads), R(NBeads))]])

(* nm.free_qstep(): propagation of the non-centroid modes of the free ring
   polymer over the time nm.dt; a symmetric (kick, drift, kick) linear map on
   the deviations from the centroid, which leaves the centroid alone *)
free_qstep(s, h, mm) ==
    LetIn(Centroid(s.q), LAMBDA qc :
      LetIn(Centroid(s.p), LAMBDA pc :
        LET dq0(b, a, d) == RSub(s.q[b][a][d], qc[a][d])
            dp0(b, a, d) == RSub(s.p[b][a][d], pc[a][d])
            hk(a) == RMul(R(mm[a]), RMul(h, Half))
            dp1(b, a, d) == RSub(dp0(b, a, d), RMul(hk(a), dq0(b, a, d)))
            dq1(b, a, d) == RAdd(dq0(b, a, d), RMul(h, RDiv(dp1(b, a, d), R(mm[a]))))
            dp2(b, a, d) == RSub(dp1(b, a, d), RMul(hk(a), dq1(b, a, d)))
            Q(b, a, d) == RAdd(qc[a][d], dq1(b, a, d))
            P(b, a, d) == RAdd(pc[a][d], dp2(b, a, d))
        IN  [s EXCEPT !.q = BeadMap(Q), !.p = BeadMap(P)]))

(***************************************************************************)
(* The propagators of the ensembles.                                       *)
(***************************************************************************)
(* beads.p += f*h *)
Kick(s, f, h) ==
    LetIn(f, LAMBDA fv :
      LET F(b, a, d) == RAdd(s.p[b][a][d], RMul(fv[b][a][d], h))
      IN  [s EXCEPT !.p = BeadMap(F)])

(* qcstep: nm.qnm[0,:] += nm.pnm[0,:]/beads.m3[0]*h moves the centroid, that
   is every replica of an atom, by (centroid momentum)/m*h *)
qcstep(s, h, mm) ==
    LetIn(Centroid(s.p), LAMBDA pcen :
      LET F(b, a, d) == RAdd(s.q[b][a][d], RMul(RDiv(pcen[a][d], R(mm[a])), h))
      IN  [s EXCEPT !.q = BeadMap(F)])

(***************************************************************************)
(* The operations a step() executes, in order.                             *)
(***************************************************************************)
Op(name, level, h) == [op |-> name, lev |-> level, h |-> h]

Errors == {"IndexError", "ZeroDivisionError"}

(* NVEEnsemble.pstep(): force and bias kick over dt*0.5 *)
PstepOp == Op("pstep", 0, RMul(dt, Half))
PconsOp == Op("pconstraints", 0, RZero)
(* as QcstepOp, over half the time step *)
QcstepOpHalfDt == Op("qcstep", 0, RMul(dt, Half))
(* NVEEnsemble.qcstep(): centroid step over dt *)
QcstepOp == Op("qcstep", 0, dt)
(* nm.free_qstep() over nm.dt; nm.dt is the ensemble's dt unless MTSEnsemble.bind
   pipes deltat = dt/inmts into it, which cannot be evaluated when inmts is 0 *)
FreeOp(inm) ==
    IF inm = 0 /\ NBeads > 1
    THEN Op("ZeroDivisionError", 0, RZero)
    ELSE Op("free_qstep", 0, IF inm = 0 THEN RZero ELSE RDiv(dt, R(inm)))
ThermoOp == Op("thermostat", 0, RMul(dt, Half))
BaroThermoOp == Op("baro_thermostat", 0, RMul(dt, Half))
BaroPstepOp == Op("baro_pstep", 0, RMul(dt, Half))
BaroQcstepOp == Op("baro_qcstep", 0, dt)
(* as MtsPstepOp, over dt/alpha *)
MtsPstepOpFullStep(index, alpha) == Op("pstep_mts", index, RDiv(dt, R(alpha)))
(* beads.p += bias.f*(dt*0.5), inline in MTSEnsemble.step *)
BiasOp == Op("bias", 0, RMul(dt, Half))
(* MTSEnsemble.pstep(index, 2.0*alpha): kick of level index over dt/(2*alpha) *)
MtsPstepOp(index, alpha) == Op("pstep_mts", index, RDiv(dt, R(2 * alpha)))
(* as MtsQcstepOp, over the whole dt *)
MtsQcstepOpFullDt(alpha) == Op("qcstep", 0, dt)

(* MTSEnsemble.qcstep(alpha): centroid step over dt/alpha *)
MtsQcstepOp(alpha) == Op("qcstep", 0, RDiv(dt, R(alpha)))

RECURSIVE Repeat(_, _)
Repeat(seq, n) == IF n <= 0 THEN <<>> ELSE seq \o Repeat(seq, n - 1)

(* as NVEProg, with the free ring-polymer propagation before the centroid step *)
NVEProgFreeFirst == <<PstepOp, PconsOp, FreeOp(1), QcstepOp, PstepOp, PconsOp>>

(* as NVEProg, with the position update first and both kicks after it *)
NVEProgKicksAfterMove == <<QcstepOp, FreeOp(1), PstepOp, PconsOp, PstepOp, PconsOp>>

(* NVEEnsemble.step *)
NVEProg == <<PstepOp, PconsOp, QcstepOp, FreeOp(1), PstepOp, PconsOp>>

(* as NVTProg, without the closing thermostat half-step *)
NVTProgOneThermostat ==
    <<ThermoOp, PconsOp, PstepOp, PconsOp, QcstepOp, FreeOp(1), PstepOp, PconsOp, PconsOp>>

(* NVTEnsemble.step *)
NVTProg ==
    <<ThermoOp, PconsOp, PstepOp, PconsOp, QcstepOp, FreeOp(1), PstepOp, PconsOp,
      ThermoOp, PconsOp>>

(* as NPTProg, with the closing thermostats in the order of the opening ones *)
NPTProgNotMirrored ==
    <<ThermoOp, BaroThermoOp, PconsOp, BaroPstepOp, PconsOp, BaroQcstepOp, FreeOp(1),
      BaroPstepOp, PconsOp, ThermoOp, BaroThermoOp, PconsOp>>

(* NPTEnsemble.step and NSTEnsemble.step *)
NPTProg ==
    <<ThermoOp, BaroThermoOp, PconsOp, BaroPstepOp, PconsOp, BaroQcstepOp, FreeOp(1),
      BaroPstepOp, PconsOp, BaroThermoOp, ThermoOp, PconsOp>>

(* as mtsprop, without the closing kick of each sub-step *)
RECURSIVE mtspropOneSided(_, _, _, _, _)
mtspropOneSided(index, alpha0, facs, L, inm) ==
    IF index + 1 > Len(facs) THEN <<Op("IndexError", index, RZero)>>
    ELSE LET nmts == facs[index + 1]
             alpha == alpha0 * nmts
             inner == IF index = L - 1
                      THEN <<MtsQcstepOp(alpha), FreeOp(inm)>>
                      ELSE mtspropOneSided(index + 1, alpha, facs, L, inm)
             body == <<MtsPstepOp(index, alpha), PconsOp>> \o inner
         IN  IF nmts <= 0 THEN <<>> ELSE Repeat(body, nmts)

(* MTSEnsemble.mtsprop(index, alpha); reading mtsintegfactors[index] past the
   end of the list raises IndexError *)
RECURSIVE mtsprop(_, _, _, _, _)
mtsprop(index, alpha0, facs, L, inm) ==
    IF index + 1 > Len(facs) THEN <<Op("IndexError", index, RZero)>>
    ELSE LET nmts == facs[index + 1]
             alpha == alpha0 * nmts
             inner == IF index = L - 1
                      THEN <<MtsQcstepOp(alpha), FreeOp(inm)>>
                      ELSE mtsprop(index + 1, alpha, facs, L, inm)
             body == <<MtsPstepOp(index, alpha), PconsOp>> \o inner
                        \o <<MtsPstepOp(index, alpha), PconsOp>>
         IN  IF nmts <= 0 THEN <<>> ELSE Repeat(body, nmts)

(* as MTSProg, with the bias kicks outside the thermostat steps *)
MTSProgBiasOutside(facs, L, inm) ==
    <<BiasOp, ThermoOp, PconsOp>> \o mtsprop(0, 1, facs, L, inm)
        \o <<ThermoOp, PconsOp, BiasOp>>

(* MTSEnsemble.step *)
MTSProg(facs, L, inm) ==
    <<ThermoOp, PconsOp, BiasOp>> \o mtsprop(0, 1, facs, L, inm)
        \o <<BiasOp, ThermoOp, PconsOp>>

Program(e, facs, L, inm) ==
    CASE e = "nve" -> NVEProg
      [] e = "nvt" -> NVTProg
      [] e \in {"npt", "nst"} -> NPTProg
      [] e = "mts" -> MTSProg(facs, L, inm)

(* barostat.thermostat.step(): acts on the cell momentum, not on the replicas;
   a damping barostat thermostat books one unit of heat per half-step in
   barostat.ebaro *)
baro_thermostat_step(s, kind) ==
    IF kind = "none" THEN s ELSE [s EXCEPT !.ebaro = RAdd(s.ebaro, R(1))]

(* the effect of one operation on the replicas *)
Exec(o, s) ==
    CASE o.op = "pstep" ->
            LetIn(Kick(s, forces_f(s.q, kforce, nmtslevels), o.h), LAMBDA s1 :
              Kick(s1, bias_f(s.q, kbias), o.h))
      [] o.op = "pstep_mts" -> Kick(s, forces_mts(s.q, o.lev, kforce, nmtslevels), o.h)
      [] o.op = "bias" -> Kick(s, bias_f(s.q, kbias), o.h)
      [] o.op = "baro_pstep" -> Kick(s, forces_f(s.q, kforce, nmtslevels), o.h)
      [] o.op = "pconstraints" ->
            LetIn(pconstraints([p |-> s.p, eens |-> s.eens], fixcom, fixatoms, m), LAMBDA c :
              [s EXCEPT !.p = c.p, !.eens = c.eens])
      [] o.op \in {"qcstep", "baro_qcstep"} -> qcstep(s, o.h, m)
      [] o.op = "free_qstep" -> free_qstep(s, o.h, m)
      [] o.op = "thermostat" -> thermostat_step(s, thermostat, m)
      [] o.op = "baro_thermostat" -> baro_thermostat_step(s, thermostat)

(* one operation of a program: it does nothing once an operation has raised *)
RunOp(o, r) ==
    IF r.err # "none" THEN r
    ELSE IF o.op \in Errors THEN [r EXCEPT !.err = o.op]
    ELSE [s |-> Exec(o, r.s), log |-> Append(r.log, o), err |-> "none"]

(* runs the operations lo..hi of a program in order, the first half before
   the second *)
RECURSIVE RunProg(_, _, _, _)
RunProg(prog, lo, hi, r) ==
    IF lo > hi THEN r
    ELSE IF lo = hi THEN RunOp(prog[lo], r)
    ELSE LetIn(RunProg(prog, lo, (lo + hi) \div 2, r),
               LAMBDA r1 : RunProg(prog, (lo + hi) \div 2 + 1, hi, r1))

Run(prog, s) ==
    LetIn(prog, LAMBDA pr :
      LetIn([s |-> s, log |-> <<>>, err |-> "none"], LAMBDA r0 : RunProg(pr, 1, Len(pr), r0)))

(***************************************************************************)
(* Inputs.                                                                 *)
(***************************************************************************)
PVec(k) == <<R(k), R(-k), R(2 * k - 1)>>
PVecs == {PVec(k) : k \in 0..MaxP}
ZeroVec == [d \in Dims |-> RZero]
VAdd(x, y) == [d \in Dims |-> RAdd(x[d], y[d])]
VScale(c, x) == [d \in Dims |-> RMul(c, x[d])]

(* the momentum assignments tried: a vector per atom, shifted from replica
   to replica *)
PInputs ==
    {[b \in Beads |-> [a \in Atoms |-> VAdd(pv[a], VScale(R(b - 1), pw))]] :
        pv \in [Atoms -> PVecs], pw \in PVecs}

Masses == [a \in Atoms |-> a]
ZeroBeads == [b \in Beads |-> [a \in Atoms |-> ZeroVec]]
NoRef == [q |-> ZeroBeads, p |-> ZeroBeads]

(* the driver is not part of the runs of a single ensemble *)
NoReplay ==
    /\ mode = "none"
    /\ units = "atomic_unit"
    /\ nrec = 0
    /\ rpos = 0
    /\ rstep = 0
    /\ cell = RZero
    /\ signalled = FALSE
    /\ catchup = FALSE
    /\ rarg = [given |-> FALSE, step |-> 0]

(* Barostat.__init__ and the ensemble before any of its methods is called *)
NoBaro == [bound |-> FALSE, collaborators |-> {}, pipes |-> {}]

NoEcons ==
    /\ ebaro = RZero
    /\ baro = NoBaro
    /\ econs = RZero
    /\ necons = 0
    /\ lastop = "none"

NoDriver ==
    /\ step = 0
    /\ step0 = 0
    /\ tsteps = 0
    /\ ttime = FALSE
    /\ rollback = TRUE
    /\ syslist = <<>>
    /\ runat = "none"
    /\ it = 0
    /\ cur = 0
    /\ chk = [step |-> 0, syslist |-> <<>>]
    /\ written = <<>>
    /\ nout = 0
    /\ polls = 0
    /\ cause = "none"
    /\ stopped = FALSE
    /\ teardown = <<>>

(* no input object is stored or fetched in the runs of an ensemble or of the driver *)
NoInputs ==
    /\ input = [class |-> "none"]
    /\ sc = [type |-> "none"]
    /\ ret = [call |-> "none"]

NoSimulation ==
    /\ NoReplay
    /\ NoEcons
    /\ NoDriver
    /\ NoInputs

(***************************************************************************)
(* pconstraints() applied to arbitrary momenta.                            *)
(***************************************************************************)
InitCons ==
    /\ ens = "nve"
    /\ thermostat = "none"
    /\ fixcom \in BOOLEAN
    /\ fixatoms \in SUBSET Atoms
    /\ mtsintegfactors = <<1>>
    /\ nmtslevels = 1
    /\ m = Masses
    /\ kforce = 0
    /\ kbias = 0
    /\ q = ZeroBeads
    /\ p \in PInputs
    /\ eens = RZero
    /\ ethermo = RZero
    /\ status = "constructed"
    /\ inmts = 1
    /\ steps = 0
    /\ maxsteps = 0
    /\ log = <<>>
    /\ err = "none"
    /\ pre = NoRef
    /\ ref = NoRef
    /\ calls = 0
    /\ pin = p
    /\ pmid = p
    /\ eensin = eens
    /\ qin = q
    /\ negs = <<>>
    /\ NoSimulation

CallPconstraints ==
    /\ calls < MaxCalls
    /\ LET s0 == [p |-> p, eens |-> eens]
           s1 == ComPart(s0, fixcom, m)
           s2 == pconstraints(s0, fixcom, fixatoms, m)
       IN  /\ p' = s2.p
           /\ eens' = s2.eens
           /\ pmid' = s1.p
    /\ pin' = p
    /\ eensin' = eens
    /\ calls' = calls + 1
    /\ UNCHANGED <<inputvars, cfgvars, q, ethermo, ensvars, simvars, econsvars, replayvars, qin, negs>>

NextCons == CallPconstraints

SpecCons == InitCons /\ [][NextCons]_vars

(***************************************************************************)
(* bind() and step() of the ensembles.                                     *)
(***************************************************************************)
RECURSIVE Product(_, _)
Product(facs, n) == IF n = 0 THEN 1 ELSE Product(facs, n - 1) * facs[n]

(* what NPTEnsemble.bind and NSTEnsemble.bind hand to the barostat: the
   arguments of barostat.bind() and the quantities piped into it *)
BaroBind(e) ==
    CASE e = "npt" -> [bound |-> TRUE,
                       collaborators |-> {"beads", "nm", "cell", "bforce", "prng", "fixdof"},
                       pipes |-> {"ntemp", "dt", "pext"}]
      [] e = "nst" -> [bound |-> TRUE,
                       collaborators |-> {"beads", "nm", "cell", "bforce", "bbias", "prng",
                                          "fixdof"},
                       pipes |-> {"ntemp", "dt", "stressext"}]
      [] OTHER -> NoBaro

(* as Bind, without the pconstraints() pass *)
BindNoConstraints ==
    /\ status = "constructed"
    /\ calls = 0
    /\ p' = p
    /\ eens' = eens
    /\ inmts' = IF ens = "mts" THEN Product(mtsintegfactors, Len(mtsintegfactors)) ELSE 1
    /\ status' = "bound"
    /\ baro' = BaroBind(ens)
    /\ lastop' = "bind"
    /\ UNCHANGED <<inputvars, cfgvars, q, ethermo, steps, maxsteps, log, err, pre, ref, consvars, simvars,
                   ebaro, econs, necons, replayvars>>

(* Ensemble.bind applies pconstraints() to the initial configuration;
   MTSEnsemble.bind then multiplies the factors into inmts.  Neither looks at
   the length or the sign of the factors. *)
Bind ==
    /\ status = "constructed"
    /\ calls = 0
    /\ \E c \in {pconstraints([p |-> p, eens |-> eens], fixcom, fixatoms, m)} :
          /\ p' = c.p
          /\ eens' = c.eens
    /\ inmts' = IF ens = "mts" THEN Product(mtsintegfactors, Len(mtsintegfactors)) ELSE 1
    /\ status' = "bound"
    /\ baro' = BaroBind(ens)
    /\ lastop' = "bind"
    /\ UNCHANGED <<inputvars, cfgvars, q, ethermo, steps, maxsteps, log, err, pre, ref, consvars, simvars,
                   ebaro, econs, necons, replayvars>>

(* one call of ensemble.step(); an exception ends the run *)
Step ==
    /\ status = "bound"
    /\ err = "none"
    /\ steps < maxsteps
    /\ \E s0 \in {[q |-> q, p |-> p, eens |-> eens, ethermo |-> ethermo, ebaro |-> ebaro]} :
       \E r \in {Run(Program(ens, mtsintegfactors, nmtslevels, inmts), s0)} :
       \E n \in {Run(NVEProg, s0)} :
           /\ q' = r.s.q
           /\ p' = r.s.p
           /\ eens' = r.s.eens
           /\ ethermo' = r.s.ethermo
           /\ ebaro' = r.s.ebaro
           /\ log' = r.log
           /\ err' = r.err
           /\ ref' = [q |-> n.s.q, p |-> n.s.p]
    /\ pre' = [q |-> q, p |-> p]
    /\ steps' = steps + 1
    /\ lastop' = "step"
    /\ UNCHANGED <<inputvars, cfgvars, status, inmts, maxsteps, consvars, simvars, baro, econs, necons,
                   replayvars>>

NextEns == Bind \/ Step

QInputs == {[b \in Beads |-> [a \in Atoms |-> VScale(R(k * a), PVec(b - 1))]] : k \in 0..1}

AllOnes(n) == [i \in 1..n |-> 1]

InitEnsState ==
    /\ m = Masses
    /\ eens = RZero
    /\ ethermo = RZero
    /\ status = "constructed"
    /\ inmts = 1
    /\ steps = 0
    /\ log = <<>>
    /\ err = "none"
    /\ pre = NoRef
    /\ ref = NoRef
    /\ calls = 0
    /\ pin = p
    /\ pmid = p
    /\ eensin = eens
    /\ qin = q
    /\ negs = <<>>
    /\ NoSimulation

(* the ensembles on numerical inputs, with well-formed factor lists of ones *)
InitEns ==
    /\ ens \in {"nve", "nvt", "mts"}
    /\ thermostat \in (IF ens = "nve" THEN {"none"} ELSE {"none", "damp"})
    /\ fixcom \in BOOLEAN
    /\ fixatoms \in SUBSET Atoms
    /\ nmtslevels \in (IF ens = "mts" THEN 1..MaxLevels ELSE {1})
    /\ mtsintegfactors = AllOnes(nmtslevels)
    /\ kforce \in 0..1
    /\ kbias = kforce
    /\ q \in QInputs
    /\ p \in PInputs
    /\ maxsteps = 1
    /\ InitEnsState

SpecEns == InitEns /\ [][NextEns]_vars

(***************************************************************************)
(* get_econs().  The energies it reads belong to collaborators outside the *)
(* modelled sources; they are deterministic functions of the positions and *)
(* momenta.                                                                *)
(***************************************************************************)
(* beads.vpath*nm.omegan2, the spring energy of the ring polymers *)
spring(qq, mm) ==
    RSum([b \in Beads |-> RSum([a \in Atoms |->
            RMul(RMul(Half, R(mm[a])),
                 RSum([d \in Dims |->
                         RMul(RSub(qq[b][a][d], qq[(b % NBeads) + 1][a][d]),
                              RSub(qq[b][a][d], qq[(b % NBeads) + 1][a][d]))], NDim))],
            NAtoms)], NBeads)

(* forces.pot, the potential of the force field of forces_f *)
forces_pot(qq, kf, L) ==
    RSum([l \in 1..L |-> RSum([b \in Beads |-> RSum([a \in Atoms |->
            RMul(RMul(Half, R(kf * l)), Dot3(qq[b][a]))], NAtoms)], NBeads)], L)

(* bias.pot, the potential of the bias force bias_f *)
bias_pot(qq, kb) ==
    RSum([b \in Beads |-> RSum([a \in Atoms |->
            RMul(RMul(Half, R(kb)),
                 RSum([d \in Dims |-> RMul(RSub(R(1), qq[b][a][d]), RSub(R(1), qq[b][a][d]))],
                      NDim))], NAtoms)], NBeads)

(* Ensemble.get_econs, inherited by NVEEnsemble and ReplayEnsemble *)
NVEEcons(s) ==
    RAdd(RAdd(RAdd(RAdd(spring(s.q, m), Kin(s.p, m)), forces_pot(s.q, kforce, nmtslevels)),
              bias_pot(s.q, kbias)), s.eens)

(* as NVTEcons, without the thermostat heat *)
NVTEconsNoHeat(s) == NVEEcons(s)

(* NVTEnsemble.get_econs and MTSEnsemble.get_econs *)
NVTEcons(s) == RAdd(NVEEcons(s), s.ethermo)

(* NPTEnsemble.get_econs and NSTEnsemble.get_econs *)
NPTEcons(s) == RAdd(NVTEcons(s), s.ebaro)

get_econs(e, s) ==
    CASE e \in {"nve", "replay"} -> NVEEcons(s)
      [] e \in {"nvt", "mts"} -> NVTEcons(s)
      [] e \in {"npt", "nst"} -> NPTEcons(s)

(* what get_econs() reads *)
Current == [q |-> q, p |-> p, eens |-> eens, ethermo |-> ethermo, ebaro |-> ebaro]

(* as GetEcons, booking the value it returns in eens *)
GetEconsBooksValue ==
    /\ status = "bound"
    /\ necons < MaxEcons
    /\ econs' = get_econs(ens, Current)
    /\ eens' = RAdd(eens, R(1))
    /\ necons' = necons + 1
    /\ lastop' = "get_econs"
    /\ UNCHANGED <<inputvars, cfgvars, q, p, ethermo, ensvars, consvars, simvars, ebaro, baro, replayvars>>

(* one call of get_econs(): it only reads *)
GetEcons ==
    /\ status = "bound"
    /\ necons < MaxEcons
    /\ econs' = get_econs(ens, Current)
    /\ necons' = necons + 1
    /\ lastop' = "get_econs"
    /\ UNCHANGED <<inputvars, cfgvars, beadvars, ensvars, consvars, simvars, ebaro, baro, replayvars>>

NextEcons == Bind \/ Step \/ GetEcons

(* a momentum assignment with every component different from zero in some
   replica *)
EconsP == [b \in Beads |-> [a \in Atoms |-> VAdd(PVec(1), VScale(R(b - 1), PVec(1)))]]

(* all five dynamical ensembles, with and without heat exchange *)
InitEcons ==
    /\ ens \in {"nve", "nvt", "npt", "nst", "mts"}
    /\ thermostat \in (IF ens = "nve" THEN {"none"} ELSE {"none", "damp"})
    /\ fixcom \in BOOLEAN
    /\ fixatoms = {}
    /\ nmtslevels \in (IF ens = "mts" THEN 1..MaxLevels ELSE {1})
    /\ mtsintegfactors = AllOnes(nmtslevels)
    /\ kforce = 1
    /\ kbias = 1
    /\ q \in QInputs
    /\ p = EconsP
    /\ maxsteps = 1
    /\ InitEnsState

SpecEcons == InitEcons /\ [][NextEcons]_vars

(* C16: the value get_econs() returns is, for NVTEnsemble and MTSEnsemble, the
   NVE value (spring + kinetic + potential + bias potential + eens) plus the
   thermostat heat, and for NPTEnsemble and NSTEnsemble that value plus the
   barostat heat. *)
C16_EconsAddsHeat ==
    lastop = "get_econs" =>
        LET nve == RAdd(RAdd(RAdd(RAdd(spring(q, m), Kin(p, m)),
                                  forces_pot(q, kforce, nmtslevels)),
                             bias_pot(q, kbias)), eens)
        IN  /\ ens = "nve" => econs = nve
            /\ ens \in {"nvt", "mts"} => econs = RAdd(nve, ethermo)
            /\ ens \in {"npt", "nst"} => econs = RAdd(RAdd(nve, ethermo), ebaro)

C16_Witness ==
    /\ lastop = "get_econs"
    /\ ens = "npt"
    /\ steps > 0
    /\ ethermo # RZero
    /\ ebaro # RZero
    /\ econs # NVEEcons(Current)

(* C17: get_econs() leaves positions, momenta, cell, eens, thermostat heat and
   barostat heat as they are, and a call that directly follows another
   returns the same value. *)
C17_GetEconsIsPure ==
    [][necons' = necons + 1 =>
          /\ UNCHANGED <<q, p, cell, eens, ethermo, ebaro>>
          /\ lastop = "get_econs" => econs' = econs]_vars

C17_Witness ==
    /\ necons = MaxEcons
    /\ lastop = "get_econs"
    /\ steps = 0
    /\ ens = "mts"
    /\ econs # RZero

(***************************************************************************)
(* ReplayEnsemble                                                          *)
(***************************************************************************)
Modes == {"xyz", "pdb", "chk"}
Units == {"atomic_unit", "angstrom"}

(* unit_to_internal("length", self.intraj.units, 1.0) *)
unit_to_internal(u) == IF u = "angstrom" THEN R(2) ELSE R(1)

(* the i-th record of the trajectory file, in the units of the file: the
   positions of one replica and the cell that a pdb record carries *)
FrameQ(i) == [a \in Atoms |-> [d \in Dims |-> R(3 * i + a + d)]]
FrameH(i) == R(20 + i)

(* what simchk.beads.fetch() and simchk.cell.fetch() return for the checkpoint *)
ChkQ == [b \in Beads |-> [a \in Atoms |-> [d \in Dims |-> R(40 + 3 * b + a + d)]]]
ChkH == R(30)

(* the cell before the first step *)
InitialH == R(7)

(* as ToInternal, with the factor left out *)
ToInternalIdentity(qa) == qa

(* myatoms.q *= unit_to_internal("length", self.intraj.units, 1.0) *)
ToInternal(qa) == [a \in Atoms |-> VScale(unit_to_internal(units), qa[a])]

(* the state step() works on *)
ReplayState ==
    [q |-> q, p |-> p, cell |-> cell, mycell |-> cell, rpos |-> rpos, rstep |-> rstep,
     eof |-> FALSE, signalled |-> FALSE, err |-> "none"]

(* "for b in self.beads": read_xyz / read_pdb once per replica, from replica b
   on; a read past the last record raises EOFError and leaves the loop.  With
   withcell the record's cell is read and converted too (read_pdb) *)
RECURSIVE ReadBeads(_, _, _)
ReadBeads(s, b, withcell) ==
    IF b > NBeads THEN s
    ELSE IF s.rpos >= nrec THEN [s EXCEPT !.eof = TRUE]
    ELSE ReadBeads([s EXCEPT !.q[b] = ToInternal(FrameQ(s.rpos + 1)),
                             !.mycell = IF withcell
                                        THEN RMul(FrameH(s.rpos + 1), unit_to_internal(units))
                                        ELSE @,
                             !.rpos = @ + 1],
                   b + 1, withcell)

(* softexit.trigger(message): the registered exit functions run and the
   process ends *)
ReplayTrigger(s) == [s EXCEPT !.signalled = TRUE]

(* as OnEOF, without the except clause: the EOFError leaves step() *)
OnEOFPropagates(s) == [s EXCEPT !.err = "EOFError"]

(* except EOFError: softexit.trigger(" # Finished reading re-run trajectory") *)
OnEOF(s) == ReplayTrigger(s)

(* mode "pdb": positions of every replica, then self.cell.h[:] = mycell.h *)
PdbPass(s) ==
    LetIn(ReadBeads(s, 1, TRUE), LAMBDA r :
        IF r.eof THEN OnEOF(r) ELSE [r EXCEPT !.cell = r.mycell])

(* as XyzPass, with the cell assignment of the pdb branch *)
XyzPassSetsCell(s) ==
    LetIn(ReadBeads(s, 1, TRUE), LAMBDA r :
        IF r.eof THEN OnEOF(r) ELSE [r EXCEPT !.cell = r.mycell])

(* mode "xyz": positions of every replica *)
XyzPass(s) ==
    LetIn(ReadBeads(s, 1, FALSE), LAMBDA r : IF r.eof THEN OnEOF(r) ELSE r)

(* mode "chk": cell and positions of the checkpoint, then
   softexit.trigger(" # Read single checkpoint") *)
ChkPass(s) == ReplayTrigger([s EXCEPT !.cell = ChkH, !.q = ChkQ])

(* one pass of the body of "while True": self.rstep += 1, then the branch of
   the mode *)
ReplayPass(s) ==
    LetIn([s EXCEPT !.rstep = @ + 1], LAMBDA s1 :
        CASE mode = "xyz" -> XyzPass(s1)
          [] mode = "pdb" -> PdbPass(s1)
          [] OTHER -> ChkPass(s1))

(* the argument of step(): None, or the step to catch up with *)
NoArg == [given |-> FALSE, step |-> 0]
StepArgs == {NoArg} \cup {[given |-> TRUE, step |-> k] : k \in 0..MaxFrames}

(* "while True: ... if (step==None or self.rstep>step): break"; the loop is
   also left when the process ends or an exception is raised *)
(* as ReplayLoop, leaving the loop after the first pass whatever the argument *)
ReplayLoopOnce(s, arg) == ReplayPass(s)

RECURSIVE ReplayLoop(_, _)
ReplayLoop(s, arg) ==
    LetIn(ReplayPass(s), LAMBDA r :
        IF r.signalled \/ r.err # "none" THEN r
        ELSE IF ~arg.given \/ r.rstep > arg.step THEN r
        ELSE ReplayLoop(r, arg))

(* Ensemble.bind(), which ReplayEnsemble inherits: pconstraints() is the
   empty method of Ensemble *)
ReplayBind ==
    /\ ens = "replay"
    /\ status = "constructed"
    /\ status' = "bound"
    /\ UNCHANGED <<inputvars, cfgvars, beadvars, inmts, steps, maxsteps, log, err, pre, ref, consvars,
                   simvars, econsvars, replayvars>>

(* one call of ReplayEnsemble.step(step) *)
ReplayStep ==
    /\ ens = "replay"
    /\ status = "bound"
    /\ err = "none"
    /\ ~signalled
    /\ steps < maxsteps
    /\ \E arg \in StepArgs :
       \E r \in {ReplayLoop(ReplayState, arg)} :
           /\ q' = r.q
           /\ p' = r.p
           /\ cell' = r.cell
           /\ rpos' = r.rpos
           /\ rstep' = r.rstep
           /\ signalled' = r.signalled
           /\ err' = r.err
           /\ catchup' = (catchup \/ arg.given)
           /\ rarg' = arg
    /\ pre' = [q |-> q, p |-> p]
    /\ steps' = steps + 1
    /\ UNCHANGED <<inputvars, cfgvars, eens, ethermo, status, inmts, maxsteps, log, ref, consvars,
                   simvars, econsvars, mode, units, nrec>>

NextReplay == ReplayBind \/ ReplayStep

(* ReplayEnsemble.__init__ on a trajectory of up to MaxFrames frames of
   NBeads records (xyz, pdb), with a last frame that may be incomplete, or on
   one checkpoint *)
InitReplay ==
    /\ ens = "replay"
    /\ thermostat = "none"
    /\ fixcom = FALSE
    /\ fixatoms = {}
    /\ nmtslevels = 1
    /\ mtsintegfactors = <<1>>
    /\ kforce = 0
    /\ kbias = 0
    /\ m = Masses
    /\ q \in QInputs
    /\ p = EconsP
    /\ eens = RZero
    /\ ethermo = RZero
    /\ status = "constructed"
    /\ inmts = 1
    /\ steps = 0
    /\ maxsteps = MaxFrames + 2
    /\ log = <<>>
    /\ err = "none"
    /\ pre = NoRef
    /\ ref = NoRef
    /\ calls = 0
    /\ pin = p
    /\ pmid = p
    /\ eensin = eens
    /\ qin = q
    /\ negs = <<>>
    /\ mode \in Modes
    /\ units \in Units
    /\ nrec \in (IF mode = "chk" THEN {1} ELSE 0..(MaxFrames * NBeads))
    /\ rpos = 0
    /\ rstep = 0
    /\ cell = InitialH
    /\ signalled = FALSE
    /\ catchup = FALSE
    /\ rarg = [given |-> FALSE, step |-> 0]
    /\ NoEcons
    /\ NoDriver
    /\ NoInputs

SpecReplay == InitReplay /\ [][NextReplay]_vars

(***************************************************************************)
(* Statements about ReplayEnsemble.step().                                 *)
(***************************************************************************)
(* the number of frames the source holds: a frame is one record per replica,
   a checkpoint is one frame *)
Frames == IF mode = "chk" THEN 1 ELSE nrec \div NBeads
WholeFrames == mode = "chk" \/ nrec % NBeads = 0

(* the n-th frame of an xyz or pdb source, in internal units *)
SourceFrame(n) ==
    [b \in Beads |-> [a \in Atoms |->
        VScale(unit_to_internal(units), FrameQ((n - 1) * NBeads + b)[a])]]

(* C18 (as stated): for a source of K frames and step() calls without a
   catch-up argument, each of the first K calls overwrites the replica
   positions with the next source frame after unit conversion, and the
   (K+1)-th call is the first one that signals termination, whatever the
   frame mode. *)
C18_KStepsThenTermination ==
    (ens = "replay" /\ WholeFrames /\ ~catchup) =>
        /\ signalled <=> steps = Frames + 1
        /\ steps \in 1..Frames =>
              q = (IF mode = "chk" THEN ChkQ ELSE SourceFrame(steps))

(* C18 (amended): in xyz and pdb mode, for a source of K frames and step()
   calls without a catch-up argument, each of the first K calls overwrites
   the replica positions with the next source frame after unit conversion and
   the (K+1)-th call is the first one that signals termination; in checkpoint
   mode the first call overwrites the positions with the checkpoint's and
   itself signals termination. *)
C18_StreamedKStepsThenTermination ==
    (ens = "replay" /\ WholeFrames /\ ~catchup) =>
        /\ mode \in {"xyz", "pdb"} =>
              /\ signalled <=> steps = Frames + 1
              /\ steps \in 1..Frames => q = SourceFrame(steps)
        /\ mode = "chk" =>
              /\ signalled <=> steps = 1
              /\ steps = 1 => q = ChkQ

C18_Witness ==
    /\ ens = "replay"
    /\ mode = "xyz"
    /\ units = "angstrom"
    /\ nrec = MaxFrames * NBeads
    /\ ~catchup
    /\ steps = Frames + 1
    /\ signalled
    /\ q = SourceFrame(Frames)

(* C19: a call of ReplayEnsemble.step() leaves the momenta of every replica
   unchanged in every mode, and leaves the cell unchanged in xyz mode: the
   cell changes only in pdb and checkpoint mode. *)
C19_ReplayKeepsMomenta ==
    [][(ens = "replay" /\ steps' = steps + 1) =>
          /\ p' = p
          /\ mode = "xyz" => cell' = cell
          /\ cell' # cell => mode \in {"pdb", "chk"}]_vars

C19_Witness ==
    /\ ens = "replay"
    /\ mode = "pdb"
    /\ steps > 0
    /\ cell # InitialH
    /\ q # pre.q
    /\ p = pre.p
    /\ p # ZeroBeads

(* the source had fewer records left than a pass of step() reads *)
EndOfStream == mode \in {"xyz", "pdb"} /\ rstep * NBeads > nrec

(* C20: when ReplayEnsemble.step() reaches the end of the stream the
   EOFError is caught inside step(), the soft exit is triggered and no error
   leaves step(). *)
C20_EndOfStreamIsControlled ==
    ens = "replay" =>
        /\ err = "none"
        /\ EndOfStream => signalled

C20_Witness ==
    /\ ens = "replay"
    /\ mode = "xyz"
    /\ nrec > 0
    /\ EndOfStream
    /\ rpos = nrec
    /\ signalled
    /\ err = "none"

(* the larger of two numbers *)
Max(a, b) == IF a >= b THEN a ELSE b

(* a call of ReplayEnsemble.step() *)
ReplayCall == ens = "replay" /\ steps' = steps + 1

(* C31: a call step(step=s) that returns has made one read attempt per
   increment of rstep and has stopped as soon as rstep > s: afterwards
   rstep = max(rstep_before + 1, s + 1); a call without argument reads exactly
   one frame; every call makes at least one read attempt. *)
C31_CatchUpReadsUntilPast ==
    [][ReplayCall =>
          /\ rstep' >= rstep + 1
          /\ ~signalled' =>
                /\ rarg'.given => rstep' = Max(rstep + 1, rarg'.step + 1)
                /\ ~rarg'.given => rstep' = rstep + 1
                /\ mode \in {"xyz", "pdb"} => rpos' = rpos + NBeads * (rstep' - rstep)]_vars

(* a call has caught up over two frames at once *)
C31_Witness ==
    /\ ens = "replay"
    /\ mode = "xyz"
    /\ steps = 1
    /\ rarg = [given |-> TRUE, step |-> 1]
    /\ ~signalled
    /\ rstep = 2
    /\ rpos = 2 * NBeads
    /\ q = SourceFrame(2)

(* C32 (as stated): a call of step() without argument that hits end-of-stream
   modifies no replica position and no cell entry, also when the source ends
   part-way through a frame. *)
C32_EndOfStreamModifiesNothing ==
    [][(ReplayCall /\ ~rarg'.given /\ mode \in {"xyz", "pdb"} /\ signalled') =>
          (q' = q /\ cell' = cell)]_vars

(***************************************************************************)
(* NVEEnsemble.step() run forwards and backwards, and on a free particle.  *)
(***************************************************************************)
(* beads.p negated by the caller between two step() calls *)
Negate ==
    /\ status = "bound"
    /\ err = "none"
    /\ lastop = "step"
    /\ Len(negs) < MaxNegs
    /\ LET F(b, a, d) == RNeg(p[b][a][d])
       IN  p' = BeadMap(F)
    /\ negs' = Append(negs, steps)
    /\ lastop' = "negate"
    /\ UNCHANGED <<inputvars, cfgvars, q, eens, ethermo, ensvars, calls, pin, pmid, eensin, qin, simvars,
                   ebaro, baro, econs, necons, replayvars>>

NextRev == Bind \/ Step \/ Negate

(* a classical particle: every replica at the same place *)
ParticleQ == [b \in Beads |-> [a \in Atoms |-> VScale(R(a), PVec(1))]]

RevQInputs == QInputs \cup {ParticleQ}

(* NVEEnsemble with no momentum constraint, with and without forces *)
InitRev ==
    /\ ens = "nve"
    /\ thermostat = "none"
    /\ fixcom = FALSE
    /\ fixatoms = {}
    /\ nmtslevels = 1
    /\ mtsintegfactors = <<1>>
    /\ kforce \in 0..1
    /\ kbias \in 0..1
    /\ q \in RevQInputs
    /\ p \in PInputs
    /\ maxsteps = MaxSteps
    /\ InitEnsState

SpecRev == InitRev /\ [][NextRev]_vars

(* C21: with no momentum constraint and forces that are functions of the
   positions, NVEEnsemble.step(), negation of all momenta, step() again and
   negation of all momenta give back the positions and momenta the run
   started from. *)
C21_NVEStepIsReversible ==
    (ens = "nve" /\ err = "none" /\ steps = 2 /\ negs = <<1, 2>>) => (q = qin /\ p = pin)

C21_Witness ==
    /\ ens = "nve"
    /\ kforce = 1
    /\ kbias = 1
    /\ steps = 2
    /\ negs = <<1, 2>>
    /\ lastop = "negate"
    /\ pin # ZeroBeads
    /\ qin \notin {ZeroBeads, ParticleQ}
    /\ pre.q # qin
    /\ q = qin
    /\ p = pin

(* the momenta of classical particles: the same in every replica *)
ParticlePInputs == {[b \in Beads |-> pv] : pv \in [Atoms -> PVecs]}

(* NVEEnsemble on free particles: no force, no bias, no constraint *)
InitFree ==
    /\ ens = "nve"
    /\ thermostat = "none"
    /\ fixcom = FALSE
    /\ fixatoms = {}
    /\ nmtslevels = 1
    /\ mtsintegfactors = <<1>>
    /\ kforce = 0
    /\ kbias = 0
    /\ q \in RevQInputs
    /\ p \in PInputs \cup ParticlePInputs
    /\ maxsteps = FreeSteps
    /\ InitEnsState

SpecFree == InitFree /\ [][NextEns]_vars

(* every replica holds the same values: the ring polymer is one particle *)
Coincide(x) == \A b \in Beads : x[b] = x[1]

(* q0 + n*dt*p0/m *)
Advanced(n) ==
    LET F(b, a, d) == RAdd(qin[b][a][d],
                           RMul(RMul(R(n), dt), RDiv(pin[b][a][d], R(m[a]))))
    IN  BeadMap(F)

(* C22: for a free particle (zero force, zero bias force) that starts at q0
   with momentum p0, after N NVEEnsemble.step() calls the momentum is still
   p0 and the position is q0 + N*dt*p0/m, for every N up to FreeSteps. *)
C22_FreeParticleAdvances ==
    (ens = "nve" /\ kforce = 0 /\ kbias = 0 /\ err = "none" /\ Coincide(qin) /\ Coincide(pin)) =>
        (p = pin /\ q = Advanced(steps))

C22_Witness ==
    /\ ens = "nve"
    /\ kforce = 0
    /\ kbias = 0
    /\ steps = FreeSteps
    /\ Coincide(qin)
    /\ Coincide(pin)
    /\ qin = ParticleQ
    /\ pin # ZeroBeads
    /\ p = pin
    /\ q # qin
    /\ q = Advanced(FreeSteps)

(***************************************************************************)
(* Statements about the atoms of fixatoms.                                 *)
(***************************************************************************)
(* C25 (as stated): an atom of fixatoms is not moved: in every replica its
   position after a complete step() of an NVE, NVT or MTS ensemble is its
   position before the step. *)
C25_FixedAtomsNotMoved ==
    (steps > 0 /\ err = "none" /\ ens \in {"nve", "nvt", "mts"}) =>
        \A a \in fixatoms : \A b \in Beads : q[b][a] = pre.q[b][a]

(* the five dynamical ensembles with fixed atoms, with and without forces *)
InitFix ==
    /\ ens \in {"nve", "nvt", "npt", "nst", "mts"}
    /\ thermostat \in (IF ens = "nve" THEN {"none"} ELSE {"none", "damp"})
    /\ fixcom \in BOOLEAN
    /\ fixatoms \in SUBSET Atoms
    /\ nmtslevels \in (IF ens = "mts" THEN 1..MaxLevels ELSE {1})
    /\ mtsintegfactors = AllOnes(nmtslevels)
    /\ kforce \in 0..1
    /\ kbias = kforce
    /\ q \in QInputs
    /\ p = EconsP
    /\ maxsteps = MaxSteps
    /\ InitEnsState

SpecFix == InitFix /\ [][NextEns]_vars

(* C30: after bind() and after every completed step() of an NVE, NVT, NPT,
   NST or MTS ensemble every atom of fixatoms has zero momentum in every
   replica, and the last operation of every step() is pconstraints(). *)
C30_FixedMomentaZeroAtBoundaries ==
    (status = "bound" /\ err = "none") =>
        /\ \A a \in fixatoms : \A b \in Beads : p[b][a] = ZeroVec
        /\ steps > 0 => log[Len(log)].op = "pconstraints"

C30_Witness ==
    /\ status = "bound"
    /\ err = "none"
    /\ ens = "npt"
    /\ thermostat = "damp"
    /\ kforce = 1
    /\ fixatoms = {1}
    /\ steps = MaxSteps
    /\ pin[1][1] # ZeroVec
    /\ \A b \in Beads : p[b][1] = ZeroVec
    /\ p[1][2] # ZeroVec

(* MTSEnsemble.__init__: the factors when none are configured *)
DefaultFactors == <<1>>

FactorLists == UNION {[1..n -> (-1)..MaxFactor] : n \in 1..MaxLevels}

(* every ensemble and every factor list, on replicas at rest with no forces *)
InitSched ==
    /\ ens \in {"nve", "nvt", "npt", "nst", "mts"}
    /\ thermostat = "none"
    /\ fixcom \in BOOLEAN
    /\ fixatoms = {}
    /\ nmtslevels \in (IF ens = "mts" THEN 1..MaxLevels ELSE {1})
    /\ mtsintegfactors \in (IF ens = "mts" THEN FactorLists ELSE {<<1>>})
    /\ kforce = 0
    /\ kbias = 0
    /\ q = ZeroBeads
    /\ p = ZeroBeads
    /\ maxsteps = MaxSteps
    /\ InitEnsState

SpecSched == InitSched /\ [][NextEns]_vars

(***************************************************************************)
(* Statements about the operation sequence of one step().                  *)
(***************************************************************************)
OpNames(lg) == [i \in 1..Len(lg) |-> lg[i].op]
HalfDt == RDiv(dt, R(2))
LevelKicks(lg, l) == SelectSeq(lg, LAMBDA o : o.op = "pstep_mts" /\ o.lev = l)
CentroidSteps(lg) == SelectSeq(lg, LAMBDA o : o.op = "qcstep")

(* C11 (as stated): with no factors configured every force level has factor
   1: for any number of force levels step() completes, makes exactly one
   centroid position update over dt and two half-kicks over dt/2 per level. *)
C11_DefaultFactorsOnePerLevel ==
    (ens = "mts" /\ mtsintegfactors = DefaultFactors /\ steps > 0) =>
        /\ err = "none"
        /\ Len(CentroidSteps(log)) = 1
        /\ \A i \in 1..Len(CentroidSteps(log)) : CentroidSteps(log)[i].h = dt
        /\ \A l \in 0..(nmtslevels - 1) :
              /\ Len(LevelKicks(log, l)) = 2
              /\ \A i \in 1..Len(LevelKicks(log, l)) : LevelKicks(log, l)[i].h = HalfDt

(* C12: NVEEnsemble.step() executes, once each and in this order: half
   momentum step over dt/2, pconstraints, centroid position step over dt, free
   ring-polymer propagation, half momentum step over dt/2, pconstraints. *)
C12_NVESequence ==
    (ens = "nve" /\ steps > 0) =>
        /\ err = "none"
        /\ OpNames(log) = <<"pstep", "pconstraints", "qcstep", "free_qstep", "pstep",
                            "pconstraints">>
        /\ log[1].h = HalfDt /\ log[5].h = HalfDt
        /\ log[3].h = dt /\ log[4].h = dt

C12_Witness ==
    /\ ens = "nve"
    /\ steps = MaxSteps
    /\ Len(log) = 6
    /\ log[4].op = "free_qstep"

(* the operations of a log from position i on, n of them *)
Part(lg, i, n) == [k \in 1..n |-> lg[i + k - 1]]

(* C13: NVTEnsemble.step() is thermostat half-step, pconstraints, then the
   operation sequence of NVEEnsemble.step(), then thermostat half-step,
   pconstraints; the thermostat is stepped exactly twice. *)
C13_NVTBracketsNVE ==
    (ens = "nvt" /\ steps > 0) =>
        /\ err = "none"
        /\ Len(log) = 10
        /\ OpNames(Part(log, 1, 2)) = <<"thermostat", "pconstraints">>
        /\ OpNames(Part(log, 3, 6)) = <<"pstep", "pconstraints", "qcstep", "free_qstep",
                                        "pstep", "pconstraints">>
        /\ log[3].h = HalfDt /\ log[7].h = HalfDt /\ log[5].h = dt /\ log[6].h = dt
        /\ OpNames(Part(log, 9, 2)) = <<"thermostat", "pconstraints">>
        /\ Len(SelectSeq(log, LAMBDA o : o.op = "thermostat")) = 2

C13_Witness ==
    /\ ens = "nvt"
    /\ steps = MaxSteps
    /\ log[1].op = "thermostat"
    /\ log[Len(log) - 1].op = "thermostat"

(* C14: NPTEnsemble.step() and NSTEnsemble.step() execute bead thermostat,
   barostat thermostat, pconstraints, barostat half momentum step,
   pconstraints, barostat position step, free ring-polymer propagation,
   barostat half momentum step, pconstraints, barostat thermostat, bead
   thermostat, pconstraints: the closing thermostats mirror the opening
   ones. *)
C14_NPTNSTSequence ==
    (ens \in {"npt", "nst"} /\ steps > 0) =>
        /\ err = "none"
        /\ OpNames(log) = <<"thermostat", "baro_thermostat", "pconstraints", "baro_pstep",
                            "pconstraints", "baro_qcstep", "free_qstep", "baro_pstep",
                            "pconstraints", "baro_thermostat", "thermostat", "pconstraints">>
        /\ <<log[10].op, log[11].op>> = <<log[2].op, log[1].op>>
        /\ log[1].op # log[2].op
        /\ log[4].h = HalfDt /\ log[8].h = HalfDt /\ log[6].h = dt

C14_Witness ==
    /\ ens = "nst"
    /\ steps = MaxSteps
    /\ Len(log) = 12
    /\ log[2].op = "baro_thermostat"
    /\ log[10].op = "baro_thermostat"

(* the other constant-pressure ensemble *)
Twin(e) == IF e = "npt" THEN "nst" ELSE "npt"
Targets == {"pext", "stressext"}

(* C15 (as stated): NSTEnsemble and NPTEnsemble differ only in the target
   piped into the barostat: bind() passes the same collaborators to
   barostat.bind() and pipes the same other quantities, and step() issues the
   same operations. *)
C15_NSTAndNPTDifferOnlyInTarget ==
    (ens \in {"npt", "nst"} /\ status = "bound") =>
        /\ baro.collaborators = BaroBind(Twin(ens)).collaborators
        /\ baro.pipes \ Targets = BaroBind(Twin(ens)).pipes \ Targets
        /\ (baro.pipes \cap Targets) # (BaroBind(Twin(ens)).pipes \cap Targets)
        /\ steps > 0 => log = Program(Twin(ens), mtsintegfactors, nmtslevels, inmts)

(***************************************************************************)
(* Statements about the ensembles on numerical inputs.                     *)
(***************************************************************************)
MTSAllOnes ==
    /\ ens = "mts"
    /\ Len(mtsintegfactors) = nmtslevels
    /\ \A i \in 1..nmtslevels : mtsintegfactors[i] = 1

SameAsNVE == q = ref.q /\ p = ref.p

(* C1 (as stated): with every MTS factor 1, one factor per force level and a
   thermostat that leaves the momenta alone, MTSEnsemble.step() ends with the
   positions and momenta NVEEnsemble.step() gives from the same state with the
   same forces. *)
C1_MTSOnesSameAsNVE ==
    (MTSAllOnes /\ thermostat = "none" /\ steps > 0 /\ err = "none") => SameAsNVE

(* where C1 does hold: pconstraints() is a projection unless fixcom is
   combined with a fixed-atom list that leaves some atom free *)
MTSOnesSameAsNVEWhenProjection ==
    (MTSAllOnes /\ thermostat = "none" /\ steps > 0 /\ err = "none"
        /\ ~(fixcom /\ fixatoms # {} /\ fixatoms # Atoms)) => SameAsNVE

(***************************************************************************)
(* Statements about the order of the operations of a step.                 *)
(***************************************************************************)
(* the operations that modify bead momenta, those that move positions *)
MomOps == {"pstep", "pstep_mts", "bias", "thermostat", "baro_pstep"}
PosOps == {"qcstep", "baro_qcstep", "free_qstep"}

(* the next kick, bead-thermostat step, position update or pconstraints()
   after operation i is pconstraints() *)
PconsIsNext(lg, i) ==
    \E j \in (i + 1)..Len(lg) :
        /\ lg[j].op = "pconstraints"
        /\ \A k \in (i + 1)..(j - 1) : lg[k].op \notin MomOps \cup PosOps

(* pconstraints() runs after operation i before any position is moved *)
PconsBeforeMove(lg, i) ==
    \E j \in (i + 1)..Len(lg) :
        /\ lg[j].op = "pconstraints"
        /\ \A k \in (i + 1)..(j - 1) : lg[k].op \notin PosOps

(* the factor list has one positive factor per force level *)
WellFormed ==
    ens = "mts" =>
        /\ Len(mtsintegfactors) = nmtslevels
        /\ \A i \in 1..nmtslevels : mtsintegfactors[i] > 0

(* C8 (as stated): in step() of every dynamical ensemble, after each operation
   that modifies bead momenta pconstraints() runs before any further kick,
   thermostat half-step or position update. *)
C8_PconsAfterEveryMomentumOp ==
    (steps > 0 /\ WellFormed) => \A i \in 1..Len(log) : log[i].op \in MomOps => PconsIsNext(log, i)

(* what MTSEnsemble.step() keeps of it: every pstep(), barostat pstep(),
   thermostat half-step and MTS level kick is followed by pconstraints()
   before any further kick, thermostat half-step or position update, and
   pconstraints() runs after each bias half-kick before any position is moved
   and before step() returns. *)
PconsAfterMomentumOpsButBias ==
    steps > 0 =>
        \A i \in 1..Len(log) :
            /\ log[i].op \in MomOps \ {"bias"} => PconsIsNext(log, i)
            /\ (log[i].op = "bias" /\ err = "none") => PconsBeforeMove(log, i)

QcSteps == SelectSeq(log, LAMBDA o : o.op = "qcstep")

TwoLevelMTS ==
    /\ ens = "mts"
    /\ nmtslevels = 2
    /\ Len(mtsintegfactors) = 2
    /\ mtsintegfactors[1] > 0
    /\ mtsintegfactors[2] > 0

(* C9: with two force levels and positive factors [n0, n1], one
   MTSEnsemble.step() makes exactly n0*n1 centroid position updates, each over
   dt/(n0*n1), so their durations add up to dt. *)
C9_TwoLevelPositionUpdates ==
    (TwoLevelMTS /\ steps > 0) =>
        LET n == mtsintegfactors[1] * mtsintegfactors[2]
        IN  /\ err = "none"
            /\ Len(QcSteps) = n
            /\ \A i \in 1..Len(QcSteps) : QcSteps[i].h = RDiv(dt, R(n))
            /\ RSum([i \in 1..Len(QcSteps) |-> QcSteps[i].h], Len(QcSteps)) = dt

C9_Witness ==
    /\ TwoLevelMTS
    /\ steps > 0
    /\ mtsintegfactors = <<2, 2>>
    /\ Len(QcSteps) = 4
    /\ QcSteps[1].h # dt

Malformed ==
    /\ ens = "mts"
    /\ \/ Len(mtsintegfactors) # nmtslevels
       \/ \E i \in 1..Len(mtsintegfactors) : mtsintegfactors[i] <= 0

(* C10 (as stated): a factor list whose length is not the number of force
   levels, or with a factor that is not positive, is rejected by
   MTSEnsemble.bind(): the ensemble is never bound and never steps. *)
C10_MalformedFactorsRejectedAtBind ==
    Malformed => (status # "bound" /\ steps = 0)

(***************************************************************************)
(* Statements about MTSEnsemble.step().                                     *)
(***************************************************************************)
(* a completed MTSEnsemble.step() *)
MTSStepped == ens = "mts" /\ steps > 0 /\ err = "none"

(* the operations between the two bias kicks: what mtsprop(0, 1.0) executes *)
Schedule(lg) == Part(lg, 4, Len(lg) - 6)

(* C26: MTSEnsemble.step() is thermostat half-step, pconstraints, bias kick
   over dt/2, mtsprop(0, 1.0), bias kick over dt/2, thermostat half-step,
   pconstraints; for any factor list the bias force is applied exactly twice,
   each time over dt/2, and never inside the recursive schedule. *)
C26_MTSStepBracketsBias ==
    MTSStepped =>
        /\ Len(log) >= 6
        /\ Part(log, 1, 3) = <<ThermoOp, PconsOp, Op("bias", 0, HalfDt)>>
        /\ Part(log, Len(log) - 2, 3) = <<Op("bias", 0, HalfDt), ThermoOp, PconsOp>>
        /\ Len(SelectSeq(log, LAMBDA o : o.op = "bias")) = 2
        /\ \A i \in 1..(Len(log) - 6) :
              Schedule(log)[i].op \in {"pstep_mts", "pconstraints", "qcstep", "free_qstep"}

C26_Witness ==
    /\ MTSStepped
    /\ nmtslevels = 2
    /\ mtsintegfactors = <<2, 2>>
    /\ Len(log) > 6
    /\ log[3].op = "bias"
    /\ log[Len(log) - 2].op = "bias"

(* C27 (as stated): in every innermost sub-step of mtsprop the centroid step
   and the free ring-polymer propagation that follows it run over the same
   time, for every factor list and every number of force levels. *)
C27_InnermostStepsAgree ==
    MTSStepped =>
        \A i \in 1..Len(log) :
            log[i].op = "qcstep" =>
                /\ i < Len(log)
                /\ log[i + 1].op = "free_qstep"
                /\ log[i + 1].h = log[i].h

(* the factors of the levels 0..L-1 are there and positive *)
LevelFactorsPositive ==
    /\ Len(mtsintegfactors) >= nmtslevels
    /\ \A i \in 1..nmtslevels : mtsintegfactors[i] > 0

(* C28: in one MTSEnsemble.step() with factors [n_0..n_(L-1)] the force of
   level l is applied in exactly 2*(n_0*...*n_l) kicks, each over
   dt/(2*n_0*...*n_l) and with that level's force only (no kick with the
   total force is made), so that the kicks of every level add up to dt. *)
C28_LevelKickCount ==
    (MTSStepped /\ LevelFactorsPositive) =>
        /\ \A l \in 0..(nmtslevels - 1) :
              LET n == Product(mtsintegfactors, l + 1)
                  kicks == LevelKicks(log, l)
              IN  /\ Len(kicks) = 2 * n
                  /\ \A i \in 1..Len(kicks) : kicks[i].h = RDiv(dt, R(2 * n))
                  /\ RMul(R(Len(kicks)), kicks[1].h) = dt
        /\ \A i \in 1..Len(log) :
              /\ log[i].op # "pstep"
              /\ log[i].op = "pstep_mts" => log[i].lev \in 0..(nmtslevels - 1)

C28_Witness ==
    /\ MTSStepped
    /\ nmtslevels = 2
    /\ mtsintegfactors = <<2, 2>>
    /\ Len(LevelKicks(log, 0)) = 4
    /\ Len(LevelKicks(log, 1)) = 8
    /\ LevelKicks(log, 1)[1].h = RDiv(dt, R(8))

(* the schedule as entries (operation kind, level, time): a level kick is one
   entry, a centroid step with the free propagation after it is one entry,
   pconstraints() calls are left out *)
Entries(lg) ==
    SelectSeq(Schedule(lg), LAMBDA o : o.op \in {"pstep_mts", "qcstep"})

(* C29: for every factor list the entries of the schedule mtsprop(0, 1.0)
   executes read the same forwards and backwards. *)
C29_ScheduleIsSymmetric ==
    MTSStepped =>
        LET e == Entries(log)
        IN  \A i \in 1..Len(e) : e[i] = e[Len(e) + 1 - i]

C29_Witness ==
    /\ MTSStepped
    /\ nmtslevels = 2
    /\ mtsintegfactors = <<1, 2>>
    /\ Len(Entries(log)) = 8
    /\ Entries(log)[1].lev = 0
    /\ Entries(log)[2].lev = 1
    /\ Entries(log)[3].op = "qcstep"

(***************************************************************************)
(* Statements about pconstraints().                                        *)
(***************************************************************************)
TotalPZero == \A d \in Dims : PCom(p, d) = RZero

(* C5 (as stated): after pconstraints() with fixcom enabled the total momentum
   over all replicas and atoms is zero in each dimension, whatever the
   fixed-atom list. *)
C5_TotalMomentumZero == (calls > 0 /\ fixcom) => TotalPZero

(* C6: pconstraints() adds to eens exactly the kinetic energy it removes:
   kinetic energy + eens is the same before and after the call. *)
C6_EensAbsorbsRemovedKinetic ==
    calls > 0 => RAdd(Kin(p, m), eens) = RAdd(Kin(pin, m), eensin)

C6_Witness ==
    /\ calls > 0
    /\ fixcom
    /\ fixatoms # {}
    /\ fixatoms # Atoms
    /\ eens # eensin
    /\ Kin(p, m) # Kin(pin, m)
    /\ Kin(p, m) # RZero

(* C7: after pconstraints() with a non-empty fixed-atom list every fixed atom
   has zero momentum in all three dimensions in every replica, and the
   fixed-atom pass leaves the momenta of the other atoms as the
   centre-of-mass pass left them. *)
C7_FixedAtomsZeroOthersKept ==
    (calls > 0 /\ fixatoms # {}) =>
        \A b \in Beads : \A a \in Atoms :
            IF a \in fixatoms
            THEN \A d \in Dims : p[b][a][d] = RZero
            ELSE p[b][a] = pmid[b][a]

C7_Witness ==
    /\ calls > 0
    /\ fixatoms # {}
    /\ \E b \in Beads : \E a \in fixatoms : \A d \in Dims :
          pin[b][a][d] # RZero /\ pmid[b][a][d] # RZero
    /\ \E b \in Beads : \E a \in Atoms \ fixatoms : p[b][a] # ZeroVec /\ p[b][a] # pin[b][a]


(***************************************************************************)
(* The driver: Simulation.run() and Simulation.softexit().  A system's      *)
(* ensemble.step() is in flight between StepBegin and StepEnd.              *)
(***************************************************************************)
Systems == 1..NSys

(* what chk.store() takes: the step counter and the state of every system *)
Snapshot(st, sl) == [step |-> st, syslist |-> sl]

(* the ensembles are not run numerically under the driver *)
NoEnsemble ==
    /\ NoReplay
    /\ NoEcons
    /\ ens = "nve"
    /\ thermostat = "none"
    /\ fixcom = FALSE
    /\ fixatoms = {}
    /\ nmtslevels = 1
    /\ mtsintegfactors = <<1>>
    /\ m = Masses
    /\ kforce = 0
    /\ kbias = 0
    /\ q = ZeroBeads
    /\ p = ZeroBeads
    /\ eens = RZero
    /\ ethermo = RZero
    /\ status = "bound"
    /\ inmts = 1
    /\ steps = 0
    /\ maxsteps = 0
    /\ log = <<>>
    /\ err = "none"
    /\ pre = NoRef
    /\ ref = NoRef
    /\ calls = 0
    /\ pin = p
    /\ pmid = p
    /\ eensin = eens
    /\ qin = q
    /\ negs = <<>>

(* Simulation.__init__ and Simulation.bind: rollback is True, chk holds the
   state it was bound to *)
InitSim ==
    /\ NoEnsemble
    /\ NoInputs
    /\ tsteps \in 1..MaxTSteps
    /\ step0 \in 0..tsteps
    /\ step = step0
    /\ ttime \in BOOLEAN
    /\ rollback = TRUE
    /\ syslist = [s \in Systems |-> [n |-> 0, mid |-> FALSE]]
    /\ runat = "start"
    /\ it = step0
    /\ cur = 1
    /\ chk = Snapshot(step0, syslist)
    /\ written = <<>>
    /\ nout = 0
    /\ polls = [exit |-> 0, time |-> 0]
    /\ cause = "none"
    /\ stopped = FALSE
    /\ teardown = <<>>

(* as softexit, without the increment of the step counter *)
softexitNoIncrement(rb) ==
    LET st == step
        held == IF ~rb THEN Snapshot(st, syslist) ELSE chk
    IN  [step |-> st, chk |-> held, written |-> Append(written, held),
         did |-> <<"write", "stop">>]

(* as softexit, stopping the force evaluators before the checkpoint is written *)
softexitStopsFirst(rb) ==
    LET st == IF step < tsteps THEN step + 1 ELSE step
        held == IF ~rb THEN Snapshot(st, syslist) ELSE chk
    IN  [step |-> st, chk |-> held, written |-> Append(written, held),
         did |-> <<"stop", "write">>]

(* as softexit, storing whatever rollback is *)
softexitAlwaysStores(rb) ==
    LET st == IF step < tsteps THEN step + 1 ELSE step
        held == Snapshot(st, syslist)
    IN  [step |-> st, chk |-> held, written |-> Append(written, held),
         did |-> <<"write", "stop">>]

(* Simulation.softexit(), with rb the value of self.rollback: the new step
   counter, what chk holds and what has been written *)
softexit(rb) ==
    LET st == IF step < tsteps THEN step + 1 ELSE step
        held == IF ~rb THEN Snapshot(st, syslist) ELSE chk
    IN  [step |-> st, chk |-> held, written |-> Append(written, held),
         did |-> <<"write", "stop">>]

(* softexit.trigger(): the registered Simulation.softexit runs, then the
   process exits *)
Trigger(rb, why) ==
    LET r == softexit(rb)
    IN  /\ step' = r.step
        /\ chk' = r.chk
        /\ written' = r.written
        /\ stopped' = TRUE
        /\ teardown' = teardown \o r.did
        /\ runat' = "exited"
        /\ cause' = why

(* as RunStart, writing the initial outputs whatever the step is *)
RunStartAlwaysWrites ==
    /\ runat = "start"
    /\ step' = -1 /\ runat' = "initout"
    /\ it' = step
    /\ UNCHANGED <<inputvars, cfgvars, beadvars, ensvars, consvars, econsvars, replayvars, step0, tsteps, ttime, rollback,
                   syslist, cur, chk, written, nout, polls, cause, stopped, teardown>>

(* run(): forces.run(), and the test "if (self.step == 0)" *)
RunStart ==
    /\ runat = "start"
    /\ IF step = 0
          THEN step' = -1 /\ runat' = "initout"
          ELSE step' = step /\ runat' = "loop"
    /\ it' = step
    /\ UNCHANGED <<inputvars, cfgvars, beadvars, ensvars, consvars, econsvars, replayvars, step0, tsteps, ttime, rollback,
                   syslist, cur, chk, written, nout, polls, cause, stopped, teardown>>

(* run(): the initial outputs, written with step = -1 *)
InitialOutputs ==
    /\ runat = "initout"
    /\ nout' = nout + 1
    /\ step' = 0
    /\ runat' = "loop"
    /\ UNCHANGED <<inputvars, cfgvars, beadvars, ensvars, consvars, econsvars, replayvars, step0, tsteps, ttime, rollback,
                   syslist, it, cur, chk, written, polls, cause, stopped, teardown>>

(* as LoopHead, without the call of chk.store() *)
LoopHeadNoStore ==
    /\ runat = "loop"
    /\ IF it < tsteps
          THEN /\ step' = it
               /\ it' = it + 1
               /\ chk' = chk
               /\ cur' = 1
               /\ runat' = "step"
          ELSE /\ runat' = "end"
               /\ UNCHANGED <<step, it, chk, cur>>
    /\ UNCHANGED <<inputvars, cfgvars, beadvars, ensvars, consvars, econsvars, replayvars, step0, tsteps, ttime, rollback,
                   syslist, written, nout, polls, cause, stopped, teardown>>

(* run(): the loop "for self.step in range(self.step, self.tsteps)" yields
   its next value and chk.store() runs, or the loop is exhausted *)
LoopHead ==
    /\ runat = "loop"
    /\ IF it < tsteps
          THEN /\ step' = it
               /\ it' = it + 1
               /\ chk' = Snapshot(it, syslist)
               /\ cur' = 1
               /\ runat' = "step"
          ELSE /\ runat' = "end"
               /\ UNCHANGED <<step, it, chk, cur>>
    /\ UNCHANGED <<inputvars, cfgvars, beadvars, ensvars, consvars, econsvars, replayvars, step0, tsteps, ttime, rollback,
                   syslist, written, nout, polls, cause, stopped, teardown>>

(* s.ensemble.step() is entered and has changed part of the system *)
StepBegin ==
    /\ runat = "step"
    /\ ~syslist[cur].mid
    /\ syslist' = [syslist EXCEPT ![cur].mid = TRUE]
    /\ UNCHANGED <<inputvars, cfgvars, beadvars, ensvars, consvars, econsvars, replayvars, step, step0, tsteps, ttime, rollback,
                   runat, it, cur, chk, written, nout, polls, cause, stopped, teardown>>

(* s.ensemble.step() returns; the loop over the systems moves on *)
StepEnd ==
    /\ runat = "step"
    /\ syslist[cur].mid
    /\ syslist' = [syslist EXCEPT ![cur] = [n |-> @.n + 1, mid |-> FALSE]]
    /\ IF cur = NSys
          THEN runat' = "outputs" /\ cur' = cur
          ELSE runat' = runat /\ cur' = cur + 1
    /\ UNCHANGED <<inputvars, cfgvars, beadvars, ensvars, consvars, econsvars, replayvars, step, step0, tsteps, ttime, rollback,
                   it, chk, written, nout, polls, cause, stopped, teardown>>

(* s.ensemble.step() raises: nothing in run() catches it *)
StepRaise ==
    /\ runat = "step"
    /\ syslist[cur].mid
    /\ runat' = "raised"
    /\ cause' = "error"
    /\ UNCHANGED <<inputvars, cfgvars, beadvars, ensvars, consvars, econsvars, replayvars, step, step0, tsteps, ttime, rollback,
                   syslist, it, cur, chk, written, nout, polls, stopped, teardown>>

(* run(): the outputs of the iteration *)
Outputs ==
    /\ runat = "outputs"
    /\ nout' = nout + 1
    /\ runat' = "pollexit"
    /\ UNCHANGED <<inputvars, cfgvars, beadvars, ensvars, consvars, econsvars, replayvars, step, step0, tsteps, ttime, rollback,
                   syslist, it, cur, chk, written, polls, cause, stopped, teardown>>

(* run(): "if os.path.exists("EXIT")": rollback = False, softexit.trigger() *)
PollExit ==
    /\ runat = "pollexit"
    /\ polls' = [polls EXCEPT !.exit = @ + 1]
    /\ \E exists \in BOOLEAN :
          IF exists
             THEN /\ rollback' = FALSE
                  /\ Trigger(FALSE, "EXIT")
             ELSE /\ runat' = "polltime"
                  /\ UNCHANGED <<rollback, step, chk, written, stopped, teardown, cause>>
    /\ UNCHANGED <<inputvars, cfgvars, beadvars, ensvars, consvars, econsvars, replayvars, step0, tsteps, ttime, syslist, it, cur,
                   nout>>

(* run(): "if (self.ttime > 0 and time.time() - simtime > self.ttime): break" *)
PollTime ==
    /\ runat = "polltime"
    /\ polls' = [polls EXCEPT !.time = @ + 1]
    /\ \E expired \in BOOLEAN :
          IF ttime /\ expired
             THEN runat' = "end" /\ cause' = "time"
             ELSE runat' = "loop" /\ cause' = cause
    /\ UNCHANGED <<inputvars, cfgvars, beadvars, ensvars, consvars, econsvars, replayvars, step, step0, tsteps, ttime, rollback,
                   syslist, it, cur, chk, written, nout, stopped, teardown>>

(* as Finish, leaving rollback as it is *)
FinishKeepsRollback ==
    /\ runat = "end"
    /\ rollback' = rollback
    /\ Trigger(rollback, IF cause = "time" THEN "time" ELSE "done")
    /\ UNCHANGED <<inputvars, cfgvars, beadvars, ensvars, consvars, econsvars, replayvars, step0, tsteps, ttime, syslist, it, cur,
                   nout, polls>>

(* run(): after the loop, rollback = False and softexit.trigger() *)
Finish ==
    /\ runat = "end"
    /\ rollback' = FALSE
    /\ Trigger(FALSE, IF cause = "time" THEN "time" ELSE "done")
    /\ UNCHANGED <<inputvars, cfgvars, beadvars, ensvars, consvars, econsvars, replayvars, step0, tsteps, ttime, syslist, it, cur,
                   nout, polls>>

(* a collaborator (the trajectory reader at its end, a force evaluator)
   calls softexit.trigger() while run() waits for it: in forces.run() or the
   initial outputs, in an ensemble.step(), or in the outputs of an iteration *)
CollaboratorSoftExit ==
    /\ runat \in {"initout", "step", "outputs"}
    /\ Trigger(rollback, "collaborator")
    /\ UNCHANGED <<inputvars, cfgvars, beadvars, ensvars, consvars, econsvars, replayvars, step0, tsteps, ttime, rollback, syslist,
                   it, cur, nout, polls>>

NextSim ==
    \/ RunStart
    \/ InitialOutputs
    \/ LoopHead
    \/ StepBegin
    \/ StepEnd
    \/ StepRaise
    \/ Outputs
    \/ PollExit
    \/ PollTime
    \/ Finish
    \/ CollaboratorSoftExit

SpecSim == InitSim /\ [][NextSim]_vars

(* run() when every ensemble.step() and every output write returns: no step
   raises and no collaborator ends the run; run() always takes its next step *)
NextReturning ==
    \/ RunStart
    \/ InitialOutputs
    \/ LoopHead
    \/ StepBegin
    \/ StepEnd
    \/ Outputs
    \/ PollExit
    \/ PollTime
    \/ Finish

SpecSimLive == InitSim /\ [][NextReturning]_vars /\ WF_vars(NextReturning)

(***************************************************************************)
(* Statements about the driver.                                            *)
(***************************************************************************)
(* a state at an outer-iteration boundary: no step() is in flight and every
   system has made the same number of steps *)
Boundary(c) ==
    \A s \in Systems : ~c.syslist[s].mid /\ c.syslist[s].n = c.syslist[1].n

(* the iterations of the loop that have been entered *)
Entered == it - step0

(* C2: every checkpoint Simulation.softexit() writes is a snapshot taken at
   an outer-iteration boundary, wherever in run() the soft exit is triggered:
   while rollback is true it is what chk.store() took at the start of the
   current iteration, after some systems may have stepped; once rollback is
   false it is the state after all systems have stepped. *)
C2_NoHalfAppliedCheckpoint ==
    \A i \in 1..Len(written) :
        /\ Boundary(written[i])
        /\ written[i] = chk
        /\ rollback => \A s \in Systems :
               /\ written[i].syslist[s].n <= syslist[s].n
               /\ runat = "exited" /\ Entered > 0 => written[i].syslist[s].n = Entered - 1
        /\ ~rollback => written[i].syslist = syslist

(* a soft exit came while the last system's step() was in flight, after the
   first system had stepped, and the checkpoint written is the older state *)
C2_Witness ==
    /\ runat = "exited"
    /\ cause = "collaborator"
    /\ Len(written) = 1
    /\ syslist[NSys].mid
    /\ syslist[1].n > written[1].syslist[1].n

(* C3: the EXIT file and the wall clock are looked at once per outer
   iteration, only after every system's step() and the outputs of that
   iteration are complete; when one of them stops the run, no further step
   is made and the one checkpoint written holds the state after the last
   step. *)
C3_StopPolledAfterStepAndOutputs ==
    /\ runat \in {"pollexit", "polltime"} =>
          /\ \A s \in Systems : ~syslist[s].mid /\ syslist[s].n = Entered
          /\ nout = Entered + (IF step0 = 0 THEN 1 ELSE 0)
    /\ polls.exit <= Entered /\ polls.time <= polls.exit
    /\ runat = "pollexit" => polls.exit = Entered - 1
    /\ runat = "polltime" => polls.time = Entered - 1
    /\ runat = "loop" => polls.exit = Entered /\ polls.time = Entered
    /\ cause \in {"EXIT", "time"} =>
          /\ \A s \in Systems : ~syslist[s].mid /\ syslist[s].n = Entered
          /\ runat = "exited" =>
                /\ Len(written) = 1
                /\ written[1].syslist = syslist
                /\ written[1].step = step0 + Entered

(* the wall-clock budget ended a run after its first iteration, with more
   iterations left to do *)
C3_Witness ==
    /\ runat = "exited"
    /\ cause = "time"
    /\ Entered = 1
    /\ step0 + Entered < tsteps
    /\ Len(written) = 1

(* C4 (as stated): when an ensemble.step() call raises, the driver writes one
   checkpoint, the snapshot stored before the failing step. *)
C4_CheckpointWrittenWhenStepRaises ==
    runat = "raised" => (Len(written) = 1 /\ written[1] = chk)

(* the outputs written before the current iteration's own *)
EarlierOutputs == Entered - 1 + (IF step0 = 0 THEN 1 ELSE 0)

(* C24: in every outer iteration of run(), chk.store() takes the state before
   any system is stepped, then ensemble.step() is called once for every
   system in syslist order, and the outputs of the iteration are written only
   after all systems have stepped. *)
C24_StoreThenStepAllThenOutputs ==
    /\ runat = "step" =>
          /\ chk = Snapshot(step, [s \in Systems |-> [n |-> Entered - 1, mid |-> FALSE]])
          /\ \A s \in Systems :
                /\ syslist[s].n = (IF s < cur THEN Entered ELSE Entered - 1)
                /\ syslist[s].mid => s = cur
          /\ nout = EarlierOutputs
    /\ runat = "outputs" =>
          /\ \A s \in Systems : ~syslist[s].mid /\ syslist[s].n = Entered
          /\ nout = EarlierOutputs
    /\ runat = "pollexit" => nout = EarlierOutputs + 1

(* the second iteration is about to write its outputs *)
C24_Witness ==
    /\ runat = "outputs"
    /\ Entered = MaxTSteps
    /\ step0 = 0
    /\ nout = MaxTSteps
    /\ chk.syslist[NSys].n = MaxTSteps - 1
    /\ \A s \in Systems : syslist[s].n = MaxTSteps

(* C33: when a run ends by completing all steps, by the EXIT file or by the
   wall-clock budget, the step counter of the checkpoint written is the
   initial step plus the number of completed outer iterations, at most
   tsteps, and tsteps after a full run; when a soft exit is triggered while a
   step() is in flight, the checkpoint written carries the step index of the
   iteration in flight. *)
C33_TerminalStepCounter ==
    runat = "exited" =>
        /\ cause \in {"done", "EXIT", "time"} =>
              /\ Len(written) = 1
              /\ written[1].step = step0 + Entered
              /\ written[1].step <= tsteps
              /\ step = written[1].step
              /\ cause = "done" => written[1].step = tsteps
        /\ (cause = "collaborator" /\ \E s \in Systems : syslist[s].mid) =>
              /\ Len(written) = 1
              /\ written[1].step = step0 + Entered - 1

(* the EXIT file ended a run resumed at step 1 after one iteration *)
C33_Witness ==
    /\ runat = "exited"
    /\ cause = "EXIT"
    /\ step0 = 1
    /\ Entered = 1
    /\ Len(written) = 1
    /\ written[1].step = 2

(* C34: provided every ensemble.step() and output write returns, run()
   terminates after at most tsteps - initial step outer iterations and then
   triggers the soft exit exactly once; Simulation.softexit() writes the
   checkpoint first and afterwards stops the force evaluators. *)
C34_RunTerminates ==
    /\ <>(runat = "exited")
    /\ [](Entered <= tsteps - step0)
    /\ [](runat # "exited" => (teardown = <<>> /\ written = <<>> /\ ~stopped))
    /\ [](runat = "exited" => (teardown = <<"write", "stop">> /\ Len(written) = 1 /\ stopped))

C34_Witness ==
    /\ runat = "exited"
    /\ cause = "done"
    /\ step0 = 0
    /\ Entered = MaxTSteps
    /\ teardown = <<"write", "stop">>
    /\ stopped

(* C35: run() writes the initial configuration once, before the first step,
   if and only if the run starts at step 0; during that write the step
   counter reads -1, and it is 0 again before the main loop; a run resumed at
   a later step writes no initial configuration. *)
C35_InitialOutputsOnlyAtStepZero ==
    /\ runat = "initout" =>
          /\ step0 = 0
          /\ step = -1
          /\ nout = 0
          /\ \A s \in Systems : syslist[s] = [n |-> 0, mid |-> FALSE]
    /\ (runat = "loop" /\ Entered = 0) =>
          /\ step = step0
          /\ nout = (IF step0 = 0 THEN 1 ELSE 0)
    /\ (runat = "step" /\ Entered = 1) => nout = (IF step0 = 0 THEN 1 ELSE 0)

C35_Witness ==
    /\ runat = "loop"
    /\ Entered = 0
    /\ step0 = 0
    /\ step = 0
    /\ nout = 1

(***************************************************************************)
(* The input classes: what store() keeps of an object and what fetch()     *)
(* builds from it.                                                         *)
(***************************************************************************)
MaxStores == 2

(* a value as the xml text holds it: in brackets when it is a list *)
Text(brackets, items) == [form |-> "str", brackets |-> brackets, items |-> items]

(* io_xml.read_array, io_xml.read_list, io_xml.read_type *)
read_array(v) == [form |-> "array", items |-> v.items]
read_list(v) == [form |-> "list", items |-> v.items]
read_type(v) == [form |-> "scalar", items |-> v.items]

(* InputInitBase.getval: the text is parsed in manual mode only *)
getval(self) ==
    IF self.attribs.mode = "manual"
    THEN IF self.value.brackets
         THEN IF self.storageclass = "float" THEN read_array(self.value) ELSE read_list(self.value)
         ELSE read_type(self.value)
    ELSE self.value

(* InputInitBase.fetch: initclass(value=self.getval(), **rdict), rdict holding
   every attribute of the input class *)
InputInitBaseFetch(self, initclass) ==
    [initclass |-> initclass, value |-> getval(self)] @@ self.attribs

(* InputInitBase.store of an object whose mode is not manual: the value as it
   is, and every attribute of the input class *)
InputInitBaseStore(self, ibase) ==
    [self EXCEPT !.value = ibase.value,
                 !.attribs = [k \in DOMAIN self.attribs |-> ibase[k]]]

(* InputInitFile(), holding its default InitBase(mode="xyz") *)
DefaultFile ==
    [class |-> "InputInitFile", storageclass |-> "float",
     attribs |-> [mode |-> "xyz", units |-> ""], value |-> Text(FALSE, <<>>)]

(* the trajectory files a Replay mover may read *)
Trajectories ==
    {[initclass |-> "InitBase", value |-> Text(FALSE, <<"traj">>), mode |-> md, units |-> ""] :
        md \in {"xyz", "chk"}}

NoTraj == [initclass |-> "none"]
NoMover == [type |-> "none"]

MoverTypes == {"Motion", "Replay", "GeopMover", "NEBMover", "Dynamics", "DynMatrixMover"}
FixatomsInputs == {<<>>, <<0>>, <<0, 1>>}

Mover(type, fc, fa, intraj, params) ==
    [type |-> type, fixcom |-> fc, fixatoms |-> fa, intraj |-> intraj, params |-> params]

(* the objects store() is given: the six movers, and an object of another type *)
Movers ==
    {Mover(ty, fc, fa, NoTraj, "none") :
        ty \in {"Motion", "Other"}, fc \in BOOLEAN, fa \in FixatomsInputs}
    \cup {Mover("Replay", fc, fa, tr, "none") :
        fc \in BOOLEAN, fa \in FixatomsInputs, tr \in Trajectories}
    \cup {Mover(ty, fc, fa, NoTraj, pa) :
        ty \in {"GeopMover", "NEBMover", "Dynamics", "DynMatrixMover"},
        fc \in BOOLEAN, fa \in FixatomsInputs, pa \in {"a", "b"}}

(* InputMotion(): no mode, the fields at their defaults *)
FreshInputMotion ==
    [class |-> "InputMotion", mode |-> "unset", fixcom |-> TRUE, fixatoms |-> <<>>,
     optimizer |-> "default", neb_optimizer |-> "default", dynamics |-> "default",
     calculator |-> "default", file |-> DefaultFile]

(* the end of InputMotion.store: what is kept besides the mode *)
StoreSettings(self, mv, tsc) ==
    IF tsc = 0 THEN [self EXCEPT !.file = InputInitBaseStore(@, mv.intraj)]
    ELSE IF tsc > 0 THEN [self EXCEPT !.fixcom = mv.fixcom, !.fixatoms = mv.fixatoms]
    ELSE self

(* InputMotion.store *)
InputMotionStore(self, mv) ==
    IF mv.type = "Motion"
    THEN [input |-> StoreSettings([self EXCEPT !.mode = "dummy"], mv, -1), raised |-> "none"]
    ELSE IF mv.type = "Replay"
    THEN [input |-> StoreSettings([self EXCEPT !.mode = "replay"], mv, 0), raised |-> "none"]
    ELSE IF mv.type = "GeopMover"
    THEN [input |-> StoreSettings([self EXCEPT !.mode = "minimize", !.optimizer = mv.params], mv, 1),
          raised |-> "none"]
    ELSE IF mv.type = "NEBMover"
    THEN [input |-> StoreSettings([self EXCEPT !.mode = "neb", !.neb_optimizer = mv.params], mv, 1),
          raised |-> "none"]
    ELSE IF mv.type = "Dynamics"
    THEN [input |-> StoreSettings([self EXCEPT !.mode = "dynamics", !.dynamics = mv.params], mv, 1),
          raised |-> "none"]
    ELSE IF mv.type = "DynMatrixMover"
    THEN [input |-> StoreSettings([self EXCEPT !.mode = "calcphonons", !.calculator = mv.params], mv, 1),
          raised |-> "none"]
    ELSE [input |-> self, raised |-> "ValueError"]

(* InputMotion.fetch; Motion() is built with no argument, its settings are
   those of the constructor: no fixed centre of mass, no fixed atom *)
InputMotionFetch(self) ==
    IF self.mode = "replay"
    THEN Mover("Replay", self.fixcom, self.fixatoms, InputInitBaseFetch(self.file, "InitBase"), "none")
    ELSE IF self.mode = "minimize"
    THEN Mover("GeopMover", self.fixcom, self.fixatoms, NoTraj, self.optimizer)
    ELSE IF self.mode = "neb"
    THEN Mover("NEBMover", self.fixcom, self.fixatoms, NoTraj, self.neb_optimizer)
    ELSE IF self.mode = "dynamics"
    THEN Mover("Dynamics", self.fixcom, self.fixatoms, NoTraj, self.dynamics)
    ELSE IF self.mode = "calcphonons"
    THEN Mover("DynMatrixMover", self.fixcom, self.fixatoms, NoTraj, self.calculator)
    ELSE Mover("Motion", FALSE, <<>>, NoTraj, "none")

(* the ensembles and the driver take no part in a store() or a fetch() *)
NoRun ==
    /\ NoEnsemble
    /\ NoDriver

StoreMotion ==
    /\ input.class = "InputMotion"
    /\ ret.call # "fetch"
    /\ ret.ncalls < MaxStores
    /\ \E mv \in Movers :
          \E r \in {InputMotionStore(input, mv)} :
             /\ input' = r.input
             /\ sc' = mv
             /\ ret' = [call |-> "store", ncalls |-> ret.ncalls + 1, raised |-> r.raised,
                        value |-> NoMover]
    /\ UNCHANGED <<cfgvars, beadvars, ensvars, consvars, simvars, econsvars, replayvars>>

FetchMotion ==
    /\ input.class = "InputMotion"
    /\ ret.call = "store"
    /\ input.mode # "unset"
    /\ ret' = [call |-> "fetch", ncalls |-> ret.ncalls, raised |-> "none",
               value |-> InputMotionFetch(input)]
    /\ UNCHANGED <<input, sc, cfgvars, beadvars, ensvars, consvars, simvars, econsvars, replayvars>>

NextMotion == StoreMotion \/ FetchMotion

InitMotion ==
    /\ NoRun
    /\ input = FreshInputMotion
    /\ sc = NoMover
    /\ ret = [call |-> "none", ncalls |-> 0, raised |-> "none", value |-> NoMover]

SpecMotion == InitMotion /\ [][NextMotion]_vars

MotionStoreCall == input.class = "InputMotion" /\ ret'.call = "store" /\ ret'.ncalls = ret.ncalls + 1
MotionFetchCall == input.class = "InputMotion" /\ ret.call = "store" /\ ret'.call = "fetch"

(* C36: for each of the six mover types, store(sc) followed by fetch() gives
   a mover of the same type with the same fixcom and the same fixatoms;
   store() of an object of any other type raises ValueError and stores no
   mode. *)
C36_MotionRoundTrip ==
    [][/\ MotionStoreCall =>
             IF sc'.type \in MoverTypes
             THEN ret'.raised = "none"
             ELSE ret'.raised = "ValueError" /\ input'.mode = input.mode
       /\ (MotionFetchCall /\ ret.raised = "none") =>
             /\ ret'.value.type = sc.type
             /\ ret'.value.fixcom = sc.fixcom
             /\ ret'.value.fixatoms = sc.fixatoms]_vars

(***************************************************************************)
(* InputInitCell.fetch()                                                   *)
(***************************************************************************)
MaxCellItem == 1
MaxSide == 2

NoInit == [initclass |-> "none"]
Raise(exc) == [raised |-> exc, value |-> NoInit]
Return(obj) == [raised |-> "none", value |-> obj]

(* the cosine and the sine of the angles the inputs hold; abc passes pi/2 *)
Cos(deg) == CASE deg = 90 -> 0
Sin(deg) == CASE deg = 90 -> 1
Sqrt(n) == CHOOSE r \in 0..n : r * r = n

(* mt.abc2h: the cell matrix of sides a, b, c and angles alpha, beta, gamma,
   row-major *)
abc2h(a, b, c, alpha, beta, gamma) ==
    LET h01 == b * Cos(gamma)
        h02 == c * Cos(beta)
        h11 == b * Sin(gamma)
        h12 == (b * c * Cos(alpha) - h01 * h02) \div h11
        h22 == Sqrt(c * c - h02 * h02 - h12 * h12)
    IN  <<a, h01, h02, 0, h11, h12, 0, 0, h22>>

(* as FetchManual, leaving the elements below the diagonal as they are given *)
FetchManualKeeps(self, h) ==
    IF Len(h) # 9 THEN Raise("ValueError")
    ELSE Return([initclass |-> "InitBase", value |-> [form |-> "array", items |-> h],
                 mode |-> "manual", units |-> self.attribs.units])

(* the manual branch of InputInitCell.fetch and its return: h[3], h[6] and
   h[7] (counted from 0) are set to zero unless they are all zero *)
FetchManual(self, h) ==
    IF Len(h) # 9 THEN Raise("ValueError")
    ELSE LET hz == IF ~(h[4] = 0 /\ h[7] = 0 /\ h[8] = 0)
                   THEN [h EXCEPT ![4] = 0, ![7] = 0, ![8] = 0]
                   ELSE h
         IN  Return([initclass |-> "InitBase", value |-> [form |-> "array", items |-> hz],
                     mode |-> "manual", units |-> self.attribs.units])

(* InputInitCell.fetch *)
InputInitCellFetch(self) ==
    LET md == self.attribs.mode
        ibase == InputInitBaseFetch(self, "InitBase")
    IN  IF md = "abc" \/ md = "abcABC"
        THEN LET h == read_array(ibase.value).items
             IN  IF md = "abc"
                 THEN IF Len(h) # 3 THEN Raise("ValueError")
                      ELSE FetchManual(self, abc2h(h[1], h[2], h[3], 90, 90, 90))
                 ELSE IF Len(h) # 6 THEN Raise("ValueError")
                      ELSE FetchManual(self, abc2h(h[1], h[2], h[3], h[4], h[5], h[6]))
        ELSE IF md = "manual"
        THEN FetchManual(self, ibase.value.items)
        ELSE Return([initclass |-> "InitBase", value |-> ibase.value, mode |-> md,
                     units |-> self.attribs.units])

CellSizes == {0, 3, 6, 9}
Arrays(sizes, items) == UNION {[1..n -> items] : n \in sizes}

(* what the cell tag may hold in each mode: a matrix, sides, sides and right
   angles, or arrays of another size; a file name in the file modes *)
CellTexts(md) ==
    IF md = "manual" THEN {Text(TRUE, a) : a \in Arrays(CellSizes, 0..MaxCellItem)}
    ELSE IF md = "abc" THEN {Text(TRUE, a) : a \in Arrays(CellSizes, 1..MaxSide)}
    ELSE IF md = "abcABC"
    THEN {Text(TRUE, a \o <<90, 90, 90>>) : a \in Arrays({3}, 1..MaxSide)}
         \cup {Text(TRUE, a) : a \in Arrays(CellSizes \ {6}, 1..MaxSide)}
    ELSE {Text(FALSE, <<"file">>)}

InputInitCell(md, un, text) ==
    [class |-> "InputInitCell", storageclass |-> "float",
     attribs |-> [mode |-> md, units |-> un], value |-> text]

CellModes == {"manual", "pdb", "chk", "abc", "abcABC"}

FetchCell ==
    /\ input.class = "InputInitCell"
    /\ ret.call = "none"
    /\ \E r \in {InputInitCellFetch(input)} :
          ret' = [call |-> "fetch", raised |-> r.raised, value |-> r.value]
    /\ UNCHANGED <<input, sc, cfgvars, beadvars, ensvars, consvars, simvars, econsvars, replayvars>>

InitCell ==
    /\ NoRun
    /\ \E md \in CellModes, un \in {"", "angstrom"} :
          \E text \in CellTexts(md) : input = InputInitCell(md, un, text)
    /\ sc = NoMover
    /\ ret = [call |-> "none"]

SpecCell == InitCell /\ [][FetchCell]_vars

(* the number of elements the cell tag must hold in a mode *)
CellSize(md) == CASE md = "abc" -> 3 [] md = "abcABC" -> 6 [] md = "manual" -> 9

(* C37: in manual, abc or abcABC mode InputInitCell.fetch() raises
   ValueError when the array given has not 9, 3 or 6 elements, and otherwise
   returns a 9-element matrix whose row-major elements 3, 6 and 7 are zero;
   in manual mode the other elements are the ones given. *)
C37_CellIsUpperTriangular ==
    (input.class = "InputInitCell" /\ ret.call = "fetch"
       /\ input.attribs.mode \in {"manual", "abc", "abcABC"}) =>
        IF Len(input.value.items) # CellSize(input.attribs.mode)
        THEN ret.raised = "ValueError"
        ELSE /\ ret.raised = "none"
             /\ ret.value.mode = "manual"
             /\ \E h \in {ret.value.value.items} :
                   /\ Len(h) = 9
                   /\ h[4] = 0 /\ h[7] = 0 /\ h[8] = 0
                   /\ input.attribs.mode = "manual" =>
                         \A i \in (1..9) \ {4, 7, 8} : h[i] = input.value.items[i]

(* a full matrix was given, and its elements below the diagonal came out zero *)
C37_Witness ==
    /\ input.class = "InputInitCell"
    /\ input.attribs.mode = "manual"
    /\ input.value.items = <<1, 1, 1, 1, 1, 1, 1, 1, 1>>
    /\ ret.call = "fetch"
    /\ ret.raised = "none"
    /\ ret.value.value.items = <<1, 1, 1, 0, 1, 1, 0, 0, 1>>

(***************************************************************************)
(* InputInitializer.fetch()                                                *)
(***************************************************************************)
MaxEntries == 2

IfMode(md, modes, inits) == IF md \in modes THEN inits ELSE <<>>

(* as FileInits, the masses and momenta initializers keeping the units of the file *)
FileInitsKeepUnits(v) ==
    LET md == v.attribs.mode
        one == InputInitBaseFetch(v, "InitIndexed")
    IN  IfMode(md, {"xyz", "manual", "pdb", "chk"}, <<<<"positions", one>>>>)
        \o IfMode(md, {"xyz", "pdb", "chk"}, <<<<"masses", one>>, <<"labels", one>>>>)
        \o IfMode(md, {"pdb", "chk"}, <<<<"cell", one>>>>)
        \o IfMode(md, {"chk"}, <<<<"momenta", one>>>>)

(* what InputInitializer.fetch appends for a "file" entry; every
   v.fetch(initclass=ei.InitIndexed) gives an initializer of its own *)
FileInits(v) ==
    LET md == v.attribs.mode
        one == InputInitBaseFetch(v, "InitIndexed")
        rm == [one EXCEPT !.units = ""]
    IN  IfMode(md, {"xyz", "manual", "pdb", "chk"}, <<<<"positions", one>>>>)
        \o IfMode(md, {"xyz", "pdb", "chk"}, <<<<"masses", rm>>, <<"labels", one>>>>)
        \o IfMode(md, {"pdb", "chk"}, <<<<"cell", one>>>>)
        \o IfMode(md, {"chk"}, <<<<"momenta", rm>>>>)

(* v.fetch() of an entry that is not a file: InputInitMomenta.fetch for
   momenta and velocities, InputInitCell.fetch for a cell, InputInitBase.fetch
   for the others *)
EntryFetch(v) ==
    IF v.class \in {"InputInitMomenta", "InputInitVelocities"}
    THEN IF v.attribs.mode = "thermal"
         THEN Return([initclass |-> "InitIndexed", value |-> read_type(v.value)] @@ v.attribs)
         ELSE Return(InputInitBaseFetch(v, "InitIndexed"))
    ELSE IF v.class = "InputInitCell" THEN InputInitCellFetch(v)
    ELSE Return(InputInitBaseFetch(v, "InitIndexed"))

(* the loop of InputInitializer.fetch over self.extra from entry i on, initlist
   holding what the entries before gave *)
RECURSIVE FetchExtra(_, _, _)
FetchExtra(extra, i, initlist) ==
    IF i > Len(extra) THEN Return(initlist)
    ELSE IF extra[i][1] = "file"
    THEN FetchExtra(extra, i + 1, initlist \o FileInits(extra[i][2]))
    ELSE LET r == EntryFetch(extra[i][2])
         IN  IF r.raised # "none" THEN Raise(r.raised)
             ELSE FetchExtra(extra, i + 1, Append(initlist, <<extra[i][1], r.value>>))

(* InputInitializer.fetch: ei.Initializer(nbeads, initlist) *)
InputInitializerFetch(self) ==
    LET r == FetchExtra(self.extra, 1, <<>>)
    IN  IF r.raised # "none" THEN r
        ELSE Return([nbeads |-> self.nbeads, queue |-> r.value])

InputInitFile(md, un) ==
    [class |-> "InputInitFile", storageclass |-> "float", attribs |-> [mode |-> md, units |-> un],
     value |-> IF md = "manual" THEN Text(TRUE, <<1>>) ELSE Text(FALSE, <<"file">>)]

InputInitIndexed(class, storageclass, md, text) ==
    [class |-> class, storageclass |-> storageclass,
     attribs |-> [mode |-> md, units |-> "angstrom", index |-> 0, bead |-> -1], value |-> text]

(* the entries of self.extra: files of every mode, and initializers of every
   other kind, among them a cell whose fetch() raises *)
ExtraEntries ==
    {<<"file", InputInitFile(md, un)>> : md \in {"xyz", "manual", "pdb", "chk"}, un \in {"", "angstrom"}}
    \cup {<<"positions", InputInitIndexed("InputInitPositions", "float", "xyz", Text(FALSE, <<"file">>))>>,
          <<"positions", InputInitIndexed("InputInitPositions", "float", "manual", Text(TRUE, <<1, 2>>))>>,
          <<"masses", InputInitIndexed("InputInitMasses", "float", "manual", Text(FALSE, <<1>>))>>,
          <<"labels", InputInitIndexed("InputInitLabels", "str", "manual", Text(TRUE, <<"H">>))>>,
          <<"momenta", InputInitIndexed("InputInitMomenta", "float", "thermal", Text(FALSE, <<1>>))>>,
          <<"momenta", InputInitIndexed("InputInitMomenta", "float", "chk", Text(FALSE, <<"file">>))>>,
          <<"velocities", InputInitIndexed("InputInitVelocities", "float", "thermal", Text(FALSE, <<1>>))>>,
          <<"cell", InputInitCell("abc", "angstrom", Text(TRUE, <<1, 2, 1>>))>>,
          <<"cell", InputInitCell("abc", "angstrom", Text(TRUE, <<1>>))>>,
          <<"cell", InputInitCell("manual", "", Text(TRUE, <<1, 0, 0, 1, 1, 0, 0, 0, 1>>))>>}

FetchInitializer ==
    /\ input.class = "InputInitializer"
    /\ ret.call = "none"
    /\ \E r \in {InputInitializerFetch(input)} :
          ret' = [call |-> "fetch", raised |-> r.raised, value |-> r.value]
    /\ UNCHANGED <<input, sc, cfgvars, beadvars, ensvars, consvars, simvars, econsvars, replayvars>>

InitInitializer ==
    /\ NoRun
    /\ \E extra \in Arrays(0..MaxEntries, ExtraEntries) :
          input = [class |-> "InputInitializer", nbeads |-> NBeads, extra |-> extra]
    /\ sc = NoMover
    /\ ret = [call |-> "none"]

SpecInitializer == InitInitializer /\ [][FetchInitializer]_vars

(* the kinds a file of a mode initializes, in order *)
FileKinds(md) ==
    CASE md = "xyz" -> <<"positions", "masses", "labels">>
      [] md = "manual" -> <<"positions">>
      [] md = "pdb" -> <<"positions", "masses", "labels", "cell">>
      [] md = "chk" -> <<"positions", "masses", "labels", "cell", "momenta">>

(* for every element of the queue the entry it comes from, and its kind *)
RECURSIVE Expected(_, _)
Expected(extra, i) ==
    IF i > Len(extra) THEN <<>>
    ELSE (IF extra[i][1] = "file"
          THEN [j \in 1..Len(FileKinds(extra[i][2].attribs.mode)) |->
                   [from |-> i, kind |-> FileKinds(extra[i][2].attribs.mode)[j]]]
          ELSE <<[from |-> i, kind |-> extra[i][1]]>>)
         \o Expected(extra, i + 1)

(* C38: when InputInitializer.fetch() returns, its queue holds, for the
   entries in their order, the initializers of a file in the order positions,
   masses, labels, cell, momenta (those its mode has), each with the mode and
   the value of the file, the masses and momenta with empty units and the
   others with the units of the file, and one initializer of its own kind for
   every entry that is not a file. *)
C38_FileEntriesExpandInOrder ==
    (input.class = "InputInitializer" /\ ret.call = "fetch" /\ ret.raised = "none") =>
        \E e \in {Expected(input.extra, 1)} :
           \E queue \in {ret.value.queue} :
              /\ Len(queue) = Len(e)
              /\ \A n \in 1..Len(e) :
                    /\ queue[n][1] = e[n].kind
                    /\ \E v \in {input.extra[e[n].from]} :
                          v[1] = "file" =>
                             /\ queue[n][2].initclass = "InitIndexed"
                             /\ queue[n][2].mode = v[2].attribs.mode
                             /\ queue[n][2].value = getval(v[2])
                             /\ queue[n][2].units =
                                   (IF e[n].kind \in {"masses", "momenta"} THEN "" ELSE v[2].attribs.units)

(* a checkpoint file with units, followed by positions given by hand *)
C38_Witness ==
    /\ input.class = "InputInitializer"
    /\ Len(input.extra) = 2
    /\ input.extra[1] = <<"file", InputInitFile("chk", "angstrom")>>
    /\ input.extra[2][1] = "positions"
    /\ ret.call = "fetch"
    /\ ret.raised = "none"
    /\ Len(ret.value.queue) = 6
    /\ ret.value.queue[2][1] = "masses"
    /\ ret.value.queue[2][2].units = ""
    /\ ret.value.queue[4][2].units = "angstrom"
    /\ ret.value.queue[6][1] = "positions"

=============================================================================
